---- MODULE Spec2Model ----
(***************************************************************************)
(* Model of the visprog core (redvampir/multicode): the Graph's node and   *)
(* connection storage with its lookup and adjacency indices, the port      *)
(* connectability predicate, and the graph algorithms.                     *)
(*                                                                         *)
(* Strings whose content is processed character by character (type names)  *)
(* are sequences of one-character strings; names that are only compared    *)
(* are TLA+ strings.  64-bit identifiers are scaled down to IdBits bits    *)
(* with the same wrap-around arithmetic (modulo 2^IdBits).                 *)
(***************************************************************************)
EXTENDS Integers, Sequences, FiniteSets, TLC

VARIABLES
    nodes_,               \* std::vector<std::unique_ptr<Node>>: the Node objects, insertion order
    node_lookup_,         \* std::unordered_map<NodeId, Node*>: the key set
    connections_,         \* std::vector<Connection>
    connection_lookup_,   \* std::unordered_map<ConnectionId, size_t>: id -> 1-based index
    adjacency_out_,       \* std::unordered_map<NodeId, std::vector<ConnectionId>>
    adjacency_in_,        \* std::unordered_map<NodeId, std::vector<ConnectionId>>
    next_connection_id_,  \* ConnectionId counter
    last,                 \* the last public call: [op, code, id]
    call,                 \* the arguments of the last recorded connect call, or NoCall
    next_node_id_,        \* NodeFactory: std::atomic<uint64_t>, as its modification order
    next_port_id_,        \* NodeFactory: std::atomic<uint64_t>, as its modification order
    threads,              \* the NodeFactory call each thread is in, with its locals
    issued                \* the ids handed out and the synchronize calls returned, in order

vars == <<nodes_, node_lookup_, connections_, connection_lookup_,
          adjacency_out_, adjacency_in_, next_connection_id_, last, call,
          next_node_id_, next_port_id_, threads, issued>>

factory_vars == <<next_node_id_, next_port_id_, threads, issued>>

graph_vars == <<nodes_, node_lookup_, connections_, connection_lookup_,
                adjacency_out_, adjacency_in_, next_connection_id_>>

----------------------------------------------------------------------------
(* Bounds of the model *)

MaxConns == 2      \* connect / append_connection are explored while fewer connections are stored
IdBits == 2        \* width of the scaled-down ConnectionId (the program uses 64)

IdSpace == 2 ^ IdBits
MaxId == IdSpace - 1

----------------------------------------------------------------------------
(* Error codes *)

OK == 0
ErrConnectionNotFound == 200
ErrPortsIncompatible == 300
ErrNodeNotFound == 301
ErrPortNotFound == 302
ErrSelfLoop == 304
ErrZeroConnectionId == 305
ErrConnectionExists == 306
ErrSourcePortMissing == 307
ErrConnectionTypeMismatch == 308
ErrCycle == 400

(* error_codes::graph_connection, the registry of ErrorCodes.hpp *)
NodeNotFound == 301
SourcePortNotFound == 302
TargetPortNotFound == 303
SelfReference == 304
DuplicateConnection == 306

----------------------------------------------------------------------------
(* DataType classification (Port.cpp, anonymous namespace) *)

DataTypes == {"Void", "Bool", "Int8", "Int16", "Int32", "Int64",
              "UInt8", "UInt16", "UInt32", "UInt64", "Float", "Double", "Char",
              "String", "StringView", "Pointer", "Reference",
              "Array", "Vector", "Map", "Set",
              "Struct", "Class", "Enum", "Template",
              "Execution", "Any", "Auto"}

requires_type_name(type) ==
    type \in {"Pointer", "Reference", "Array", "Vector", "Map", "Set",
              "Struct", "Class", "Enum", "Template"}

allows_generic_type_name(type) == type \in {"Pointer", "Reference", "Template"}

is_signed_integral(type) == type \in {"Int8", "Int16", "Int32", "Int64"}

is_unsigned_integral(type) == type \in {"UInt8", "UInt16", "UInt32", "UInt64"}

is_integral(type) ==
    is_signed_integral(type) \/ is_unsigned_integral(type) \/ type = "Bool" \/ type = "Char"

is_floating_point(type) == type = "Float" \/ type = "Double"

is_numeric(type) == is_integral(type) \/ is_floating_point(type)

is_string_like(type) == type = "String" \/ type = "StringView"

is_pointer_like(type) == type = "Pointer" \/ type = "Reference"

is_container(type) == type \in {"Array", "Vector", "Map", "Set"}

is_user_defined(type) == type \in {"Struct", "Class", "Enum"}

\* a variant that lets any integral type flow into any other
is_numeric_widening_any_integral(from, to) == is_integral(from) /\ is_integral(to)

is_numeric_widening(from, to) ==
    CASE from = "Int8" -> to \in {"Int16", "Int32", "Int64"}
      [] from = "Int16" -> to \in {"Int32", "Int64"}
      [] from = "Int32" -> to = "Int64"
      [] from = "UInt8" -> to \in {"UInt16", "UInt32", "UInt64"}
      [] from = "UInt16" -> to \in {"UInt32", "UInt64"}
      [] from = "UInt32" -> to = "UInt64"
      [] OTHER -> FALSE

is_integral_to_floating(from, to) ==
    IF ~is_integral(from) THEN FALSE ELSE to = "Float" \/ to = "Double"

is_float_promotion(from, to) == from = "Float" /\ to = "Double"

----------------------------------------------------------------------------
(* Type-name normalizer (Port.cpp, anonymous namespace).  A type name is a  *)
(* sequence of one-character strings.                                        *)

\* " \t\n\r\f\v"; a vertical tab cannot be written in a TLA+ string and is left out
\* "VT" stands for the vertical tab character
whitespace_chars == {" ", "\t", "\n", "\r", "\f", "VT"}

DigitChars == {"0", "1", "2", "3", "4", "5", "6", "7", "8", "9"}

UpperSeq == <<"A", "B", "C", "D", "E", "F", "G", "H", "I", "J", "K", "L", "M",
              "N", "O", "P", "Q", "R", "S", "T", "U", "V", "W", "X", "Y", "Z">>

LowerSeq == <<"a", "b", "c", "d", "e", "f", "g", "h", "i", "j", "k", "l", "m",
              "n", "o", "p", "q", "r", "s", "t", "u", "v", "w", "x", "y", "z">>

UpperChars == {UpperSeq[i] : i \in 1..Len(UpperSeq)}

LowerChars == {LowerSeq[i] : i \in 1..Len(LowerSeq)}

SymbolChars == {"<", ">", ",", "=", "(", ")", "[", "]", "*"}

\* the characters of the model in the order of their character codes
AsciiOrder == <<"\t", "\n", "VT", "\f", "\r", " ", "(", ")", "*", ",", ".",
                "0", "1", "2", "3", "4", "5", "6", "7", "8", "9",
                ":", "<", "=", ">">> \o UpperSeq \o <<"[", "]", "_">> \o LowerSeq

CharCode(ch) == CHOOSE i \in 1..Len(AsciiOrder) : AsciiOrder[i] = ch

RECURSIVE trim_front(_)
trim_front(value) ==
    IF value = <<>> THEN value
    ELSE IF Head(value) \in whitespace_chars THEN trim_front(Tail(value))
    ELSE value

RECURSIVE trim_back(_)
trim_back(value) ==
    IF value = <<>> THEN value
    ELSE IF value[Len(value)] \in whitespace_chars
         THEN trim_back(SubSeq(value, 1, Len(value) - 1))
    ELSE value

trim(value) == trim_back(trim_front(value))

is_generic_type_name(name) ==
    \/ name = <<>>
    \/ name = <<"*">>
    \/ name = <<"v", "o", "i", "d">>
    \/ name = <<"a", "u", "t", "o">>
    \/ name = <<"a", "n", "y">>

is_identifier_char(ch) ==
    ch \in DigitChars \/ ch \in UpperChars \/ ch \in LowerChars \/ ch = "_" \/ ch = "."

tolower(ch) ==
    IF ch \in UpperChars
    THEN LowerSeq[CHOOSE i \in 1..Len(UpperSeq) : UpperSeq[i] = ch]
    ELSE ch

\* a variant that keeps the letter case
to_lower_ascii_unchanged(value) == value

to_lower_ascii(value) == [i \in 1..Len(value) |-> tolower(value[i])]

flush_identifier(tokens, current) ==
    IF current = <<>> THEN tokens
    ELSE Append(tokens, [value |-> to_lower_ascii(current), kind |-> "Identifier"])

RECURSIVE tokenize_from(_, _, _, _)
tokenize_from(value, index, current, tokens) ==
    IF index > Len(value) THEN flush_identifier(tokens, current)
    ELSE LET ch == value[index] IN
         IF ch \in whitespace_chars
         THEN tokenize_from(value, index + 1, <<>>, flush_identifier(tokens, current))
         ELSE IF is_identifier_char(ch)
         THEN tokenize_from(value, index + 1, Append(current, ch), tokens)
         ELSE IF ch = ":" /\ index + 1 <= Len(value) /\ value[index + 1] = ":"
         THEN tokenize_from(value, index + 2, current \o <<":", ":">>, tokens)
         ELSE LET flushed == flush_identifier(tokens, current) IN
              tokenize_from(value, index + 1, <<>>,
                            IF ch \in SymbolChars
                            THEN Append(flushed, [value |-> <<ch>>, kind |-> "Symbol"])
                            ELSE flushed)

tokenize(value) == tokenize_from(value, 1, <<>>, <<>>)

\* lhs < rhs of std::string: lexicographic by character code
RECURSIVE string_less(_, _)
string_less(lhs, rhs) ==
    IF rhs = <<>> THEN FALSE
    ELSE IF lhs = <<>> THEN TRUE
    ELSE IF Head(lhs) = Head(rhs) THEN string_less(Tail(lhs), Tail(rhs))
    ELSE CharCode(Head(lhs)) < CharCode(Head(rhs))

\* TypeNameParser::is_symbol at position index (1-based)
is_symbol(tokens, index, value) ==
    index <= Len(tokens) /\ tokens[index].kind = "Symbol" /\ tokens[index].value = value

closing_symbol_of(symbol) ==
    IF symbol = <<"<">> THEN <<">">> ELSE IF symbol = <<"(">> THEN <<")">> ELSE <<"]">>

RECURSIVE parse_segments(_, _, _, _)
RECURSIVE parse_segment(_, _)
RECURSIVE parse_expression(_, _)

\* the while loop of parse_segments; segments is the vector built so far
parse_segments(tokens, index, closing_symbol, segments) ==
    IF ~(tokens # <<>> /\ index <= Len(tokens))
    THEN [segments |-> segments, index |-> index]
    ELSE IF closing_symbol # <<>> /\ is_symbol(tokens, index, closing_symbol)
    THEN [segments |-> segments, index |-> index + 1]
    ELSE LET parsed == parse_segment(tokens, index) IN
         IF parsed.index = index
         THEN parse_segments(tokens, index + 1, closing_symbol, segments)
         ELSE LET pushed == Append(segments, parsed.segment) IN
              IF is_symbol(tokens, parsed.index, <<",">>)
              THEN parse_segments(tokens, parsed.index + 1, closing_symbol, pushed)
              ELSE IF closing_symbol # <<>> /\ is_symbol(tokens, parsed.index, closing_symbol)
              THEN [segments |-> pushed, index |-> parsed.index + 1]
              ELSE parse_segments(tokens, parsed.index, closing_symbol, pushed)

parse_segment(tokens, index) ==
    LET has_key == /\ index <= Len(tokens)
                   /\ tokens[index].kind = "Identifier"
                   /\ index + 1 <= Len(tokens)
                   /\ tokens[index + 1].kind = "Symbol"
                   /\ tokens[index + 1].value = <<"=">>
        key == IF has_key THEN tokens[index].value ELSE <<>>
        expression == parse_expression(tokens, IF has_key THEN index + 2 ELSE index)
    IN [segment |-> [key |-> key, value |-> expression.expression],
        index |-> expression.index]

parse_expression(tokens, index) ==
    LET has_head == index <= Len(tokens) /\ tokens[index].kind = "Identifier"
        head == IF has_head THEN tokens[index].value ELSE <<>>
        after_head == IF has_head THEN index + 1 ELSE index
        opens == /\ after_head <= Len(tokens)
                 /\ tokens[after_head].kind = "Symbol"
                 /\ tokens[after_head].value \in {<<"<">>, <<"(">>, <<"[">>}
    IN IF opens
       THEN LET arguments == parse_segments(tokens, after_head + 1,
                                            closing_symbol_of(tokens[after_head].value), <<>>)
            IN [expression |-> [head |-> head, arguments |-> arguments.segments],
                index |-> arguments.index]
       ELSE [expression |-> [head |-> head, arguments |-> <<>>], index |-> after_head]

parse(tokens) == parse_segments(tokens, 1, <<>>, <<>>).segments

\* std::sort of the named pairs by key; pairs with equal keys keep their order
\* (what the insertion sort used for such short ranges produces)
RECURSIVE insert_named(_, _)
insert_named(sorted, pair) ==
    IF sorted = <<>> THEN <<pair>>
    ELSE IF string_less(pair[1], sorted[Len(sorted)][1])
         THEN Append(insert_named(SubSeq(sorted, 1, Len(sorted) - 1), pair), sorted[Len(sorted)])
    ELSE Append(sorted, pair)

RECURSIVE sort_named(_)
sort_named(named) ==
    IF named = <<>> THEN <<>>
    ELSE insert_named(sort_named(SubSeq(named, 1, Len(named) - 1)), named[Len(named)])

\* the append_value lambda: ", " goes in front of a value unless result is still empty
append_value(result, value) ==
    IF result # <<>> THEN result \o <<",", " ">> \o value ELSE value

\* append_value over the values in order, starting from an empty result
RECURSIVE join_values(_)
join_values(values) ==
    IF values = <<>> THEN <<>>
    ELSE append_value(join_values(SubSeq(values, 1, Len(values) - 1)), values[Len(values)])

RECURSIVE serialize_segments(_)
RECURSIVE serialize_expression(_)

serialize_segments(segments) ==
    LET serialized == [i \in 1..Len(segments) |-> serialize_expression(segments[i].value)]
        is_positional(i) == segments[i].key = <<>>
        positional_index == SelectSeq([i \in 1..Len(segments) |-> i], is_positional)
        named_index == SelectSeq([i \in 1..Len(segments) |-> i], LAMBDA i : ~is_positional(i))
        positional == [k \in 1..Len(positional_index) |-> serialized[positional_index[k]]]
        named == sort_named([k \in 1..Len(named_index) |->
                                <<segments[named_index[k]].key, serialized[named_index[k]]>>])
        rendered == [k \in 1..Len(named) |-> named[k][1] \o <<"=">> \o named[k][2]]
    IN join_values(positional \o rendered)

serialize_expression(expression) ==
    IF expression.arguments = <<>> THEN expression.head
    ELSE expression.head \o <<"<">> \o serialize_segments(expression.arguments) \o <<">">>

normalize_type_name(value) ==
    LET trimmed == trim(value) IN
    IF trimmed = <<>> THEN <<>>
    ELSE LET tokens == tokenize(trimmed) IN
         IF tokens = <<>> THEN to_lower_ascii(trimmed)
         ELSE LET segments == parse(tokens) IN
              IF segments = <<>> THEN to_lower_ascii(trimmed)
              ELSE serialize_segments(segments)

are_type_names_compatible(lhs, rhs) ==
    LET lhs_trimmed == trim(lhs)
        rhs_trimmed == trim(rhs)
    IN IF lhs_trimmed = rhs_trimmed THEN TRUE
       ELSE IF is_generic_type_name(lhs_trimmed) \/ is_generic_type_name(rhs_trimmed) THEN TRUE
       ELSE normalize_type_name(lhs_trimmed) = normalize_type_name(rhs_trimmed)

is_pointer_compatible(from_type, from_name, to_type, to_name) ==
    IF ~is_pointer_like(from_type) \/ ~is_pointer_like(to_type) THEN FALSE
    ELSE are_type_names_compatible(from_name, to_name)

is_container_compatible(from_type, from_name, to_type, to_name) ==
    IF ~is_container(from_type) \/ ~is_container(to_type) THEN FALSE
    ELSE IF from_type # to_type THEN FALSE
    ELSE are_type_names_compatible(from_name, to_name)

is_user_defined_compatible(from_type, from_name, to_type, to_name) ==
    IF ~is_user_defined(from_type) \/ ~is_user_defined(to_type) THEN FALSE
    ELSE IF from_type # to_type THEN FALSE
    ELSE are_type_names_compatible(from_name, to_name)

----------------------------------------------------------------------------
(* Port (Port.hpp, Port.cpp) *)

\* Port::Port: the type name starts empty
Port(id, direction, data_type, name) ==
    [id |-> id, direction |-> direction, data_type |-> data_type,
     name |-> name, type_name |-> <<>>]

\* Port::set_type_name: threw is the std::invalid_argument exit, port the
\* object the call leaves behind
set_type_name(port, type_name) ==
    IF ~requires_type_name(port.data_type) THEN [threw |-> TRUE, port |-> port]
    ELSE LET trimmed == trim(type_name) IN
         IF trimmed = <<>>
         THEN [threw |-> FALSE, port |-> [port EXCEPT !.type_name = <<>>]]
         ELSE LET normalized == normalize_type_name(trimmed) IN
              IF normalized = <<>>
              THEN [threw |-> FALSE, port |-> [port EXCEPT !.type_name = <<>>]]
              ELSE IF is_generic_type_name(normalized)
                      /\ ~allows_generic_type_name(port.data_type)
              THEN [threw |-> TRUE, port |-> port]
              ELSE [threw |-> FALSE, port |-> [port EXCEPT !.type_name = normalized]]

\* a variant that takes no port for an Execution port
is_execution_never(port) == FALSE

is_execution(port) == port.data_type = "Execution"

is_input(port) == port.direction = "Input"

is_output(port) == port.direction = "Output"

can_connect_to(self, other) ==
    IF self.id = other.id THEN FALSE
    ELSE LET direction_ok == \/ (is_output(self) /\ is_input(other))
                             \/ (is_input(self) /\ is_output(other))
                             \/ self.direction = "InOut"
                             \/ other.direction = "InOut"
             a == self.data_type
             b == other.data_type
         IN
         IF ~direction_ok THEN FALSE
         ELSE IF is_execution(self) \/ is_execution(other)
              THEN is_execution(self) = is_execution(other)
         ELSE IF a = "Any" \/ b = "Any" THEN TRUE
         ELSE IF a = "Auto" \/ b = "Auto" THEN TRUE
         ELSE IF a = "Void" \/ b = "Void" THEN a = b
         ELSE IF a = b
              THEN IF requires_type_name(a)
                   THEN are_type_names_compatible(self.type_name, other.type_name)
                   ELSE TRUE
         ELSE IF a = "Template" \/ b = "Template"
              THEN are_type_names_compatible(self.type_name, other.type_name)
         ELSE IF is_pointer_compatible(a, self.type_name, b, other.type_name) THEN TRUE
         ELSE IF is_pointer_compatible(b, other.type_name, a, self.type_name) THEN TRUE
         ELSE IF is_container_compatible(a, self.type_name, b, other.type_name) THEN TRUE
         ELSE IF is_container_compatible(b, other.type_name, a, self.type_name) THEN TRUE
         ELSE IF is_user_defined_compatible(a, self.type_name, b, other.type_name) THEN TRUE
         ELSE IF is_user_defined_compatible(b, other.type_name, a, self.type_name) THEN TRUE
         ELSE IF \/ is_numeric_widening(a, b)
                 \/ is_integral_to_floating(a, b)
                 \/ is_float_promotion(a, b) THEN TRUE
         ELSE IF is_floating_point(a) /\ is_floating_point(b) THEN TRUE
         ELSE IF is_string_like(a) /\ is_string_like(b) THEN TRUE
         ELSE IF is_string_like(b) THEN TRUE
         ELSE IF b = "Bool" /\ is_numeric(a) THEN TRUE
         ELSE FALSE

----------------------------------------------------------------------------
(* Node (Node.hpp, Node.cpp) and the nodes the model hands to the Graph *)

nullptr == [null |-> TRUE]

\* Node::Node followed by the add_*_port calls that give it its ports
Node(id, type, name, ports) ==
    [id |-> id, type |-> type, name |-> name, ports |-> ports, properties |-> <<>>]

find_port(node, id) ==
    IF \E i \in 1..Len(node.ports) : node.ports[i].id = id
    THEN node.ports[CHOOSE i \in 1..Len(node.ports) :
                        /\ node.ports[i].id = id
                        /\ \A j \in 1..(i - 1) : node.ports[j].id # id]
    ELSE nullptr

\* Two nodes with an execution input, an execution output and a data port, as the
\* graph tests build them, and an End node
NodePool ==
    {Node(1, "Function", "f1", <<Port(1, "Input", "Execution", "exec_in"),
                                 Port(2, "Output", "Execution", "exec_out"),
                                 Port(3, "Output", "Int32", "value")>>),
     Node(2, "Function", "f2", <<Port(4, "Input", "Execution", "exec_in"),
                                 Port(5, "Output", "Execution", "exec_out"),
                                 Port(6, "Input", "Int64", "value")>>),
     Node(3, "End", "end", <<Port(7, "Input", "Execution", "end")>>)}

AbsentNode == 4
AbsentPort == 9

NodeArgs == {node.id : node \in NodePool} \cup {AbsentNode}

PortArgsOf(node_id) ==
    UNION {{node.ports[i].id : i \in 1..Len(node.ports)} :
               node \in {pooled \in NodePool : pooled.id = node_id}}
        \cup {AbsentPort}

ConnectionIdArgs == 0..MaxId

----------------------------------------------------------------------------
(* Graph (Graph.hpp, Graph.cpp): containers *)

\* operator[] of std::unordered_map<NodeId, std::vector<ConnectionId>>: a missing
\* key is inserted with an empty vector
subscript(map, key) == IF key \in DOMAIN map THEN map[key] ELSE <<>>

map_put(map, key, value) ==
    [k \in DOMAIN map \cup {key} |-> IF k = key THEN value ELSE map[k]]

map_erase(map, key) == [k \in DOMAIN map \ {key} |-> map[k]]

\* std::erase(vector, value): every occurrence
erase_value(list, value) == SelectSeq(list, LAMBDA x : x # value)

\* the connection containers as one value
Containers ==
    [connections |-> connections_, lookup |-> connection_lookup_,
     out |-> adjacency_out_, in |-> adjacency_in_]

----------------------------------------------------------------------------
(* Graph: queries *)

has_node(id) == id \in node_lookup_

\* node_lookup_ holds a pointer to the Node that nodes_ owns
get_node(id) ==
    IF id \in node_lookup_
    THEN nodes_[CHOOSE i \in 1..Len(nodes_) : nodes_[i].id = id]
    ELSE nullptr

has_connection(id) == id \in DOMAIN connection_lookup_

get_connection(id) ==
    IF id \in DOMAIN connection_lookup_ THEN connections_[connection_lookup_[id]] ELSE nullptr

get_connections_from(node) ==
    IF node \in DOMAIN adjacency_out_ THEN adjacency_out_[node] ELSE <<>>

get_connections_to(node) ==
    IF node \in DOMAIN adjacency_in_ THEN adjacency_in_[node] ELSE <<>>

connection_count == Len(connections_)

node_count == Len(nodes_)

validate_node_exists(node) == IF ~has_node(node) THEN ErrNodeNotFound ELSE OK

validate_port_exists(node, port) ==
    LET node_ptr == get_node(node) IN
    IF node_ptr = nullptr THEN ErrNodeNotFound
    ELSE IF find_port(node_ptr, port) = nullptr THEN ErrPortNotFound
    ELSE OK

validate_connection(from_node, from_port, to_node, to_port) ==
    IF validate_node_exists(from_node) # OK THEN validate_node_exists(from_node)
    ELSE IF validate_node_exists(to_node) # OK THEN validate_node_exists(to_node)
    ELSE IF validate_port_exists(from_node, from_port) # OK
         THEN validate_port_exists(from_node, from_port)
    ELSE IF validate_port_exists(to_node, to_port) # OK
         THEN validate_port_exists(to_node, to_port)
    ELSE LET from_port_ptr == find_port(get_node(from_node), from_port)
             to_port_ptr == find_port(get_node(to_node), to_port)
         IN IF ~can_connect_to(from_port_ptr, to_port_ptr) THEN ErrPortsIncompatible
            ELSE IF from_node = to_node THEN ErrSelfLoop
            ELSE OK

\* a variant that ignores the source port: every connection is a Data connection
connection_type_data_only(from_port_ptr) == "Data"

\* the ConnectionType a connection leaving this port gets (connect, append_connection)
connection_type_of(from_port_ptr) ==
    IF is_execution(from_port_ptr) THEN "Execution" ELSE "Data"

\* next_connection_id_.value++ on a std::uint64_t
generate_connection_id(counter) == [id |-> counter, counter |-> (counter + 1) % IdSpace]

seed_connection_counter(counter, next) == IF counter < next THEN next ELSE counter

----------------------------------------------------------------------------
(* Graph: disconnect and remove_node_connections on the containers *)

\* a variant that pops the last stored connection before it looks the id up
disconnect_pop_first(g, id) ==
    IF id \notin DOMAIN g.lookup
    THEN [code |-> ErrConnectionNotFound,
          g |-> [g EXCEPT !.connections = SubSeq(@, 1, Len(@) - 1)]]
    ELSE [code |-> OK, g |-> g]

disconnect(g, id) ==
    IF id \notin DOMAIN g.lookup THEN [code |-> ErrConnectionNotFound, g |-> g]
    ELSE LET index == g.lookup[id]
             conn == g.connections[index]
             out1 == map_put(g.out, conn.from_node,
                             erase_value(subscript(g.out, conn.from_node), id))
             in1 == map_put(g.in, conn.to_node,
                            erase_value(subscript(g.in, conn.to_node), id))
             lookup1 == map_erase(g.lookup, id)
             size == Len(g.connections)
             conns1 == IF index < size
                       THEN [g.connections EXCEPT ![index] = g.connections[size]]
                       ELSE g.connections
             lookup2 == IF index < size THEN map_put(lookup1, conns1[index].id, index)
                        ELSE lookup1
         IN [code |-> OK,
             g |-> [connections |-> SubSeq(conns1, 1, size - 1), lookup |-> lookup2,
                    out |-> out1, in |-> in1]]

\* the loop over to_remove, which is sorted by id and holds no duplicates
RECURSIVE disconnect_all(_, _)
disconnect_all(g, to_remove) ==
    IF to_remove = {} THEN g
    ELSE LET conn_id == CHOOSE x \in to_remove : \A y \in to_remove : x <= y
         IN disconnect_all(disconnect(g, conn_id).g, to_remove \ {conn_id})

remove_node_connections(g, node) ==
    LET outgoing == subscript(g.out, node)
        incoming == subscript(g.in, node)
        to_remove == {outgoing[i] : i \in 1..Len(outgoing)}
                         \cup {incoming[i] : i \in 1..Len(incoming)}
    IN disconnect_all(g, to_remove)

----------------------------------------------------------------------------
(* Graph: graph algorithms *)

RECURSIVE topological_sort_dfs(_, _)
RECURSIVE dfs_outgoing(_, _, _)

\* st = [visited, in_stack, result]; the answer is [cycle, st]
topological_sort_dfs(node, st) ==
    LET entered == [st EXCEPT !.visited = @ \cup {node}, !.in_stack = @ \cup {node}]
        looped == dfs_outgoing(get_connections_from(node), 1, entered)
    IN IF looped.cycle THEN looped
       ELSE [cycle |-> FALSE,
             st |-> [looped.st EXCEPT !.in_stack = @ \ {node},
                                      !.result = Append(@, node)]]

\* the for loop over outgoing, from position k
dfs_outgoing(outgoing, k, st) ==
    IF k > Len(outgoing) THEN [cycle |-> FALSE, st |-> st]
    ELSE LET conn == get_connection(outgoing[k]) IN
         IF conn = nullptr THEN dfs_outgoing(outgoing, k + 1, st)
         ELSE IF conn.type # "Execution" THEN dfs_outgoing(outgoing, k + 1, st)
         ELSE IF conn.to_node \in st.in_stack THEN [cycle |-> TRUE, st |-> st]
         ELSE IF conn.to_node \notin st.visited
              THEN LET visited_next == topological_sort_dfs(conn.to_node, st) IN
                   IF visited_next.cycle THEN visited_next
                   ELSE dfs_outgoing(outgoing, k + 1, visited_next.st)
         ELSE dfs_outgoing(outgoing, k + 1, st)

RECURSIVE topological_sort_from(_, _)
topological_sort_from(i, st) ==
    IF i > Len(nodes_) THEN [code |-> OK, order |-> st.result]
    ELSE IF nodes_[i].id \notin st.visited
         THEN LET searched == topological_sort_dfs(nodes_[i].id, st) IN
              IF searched.cycle THEN [code |-> ErrCycle, order |-> <<>>]
              ELSE topological_sort_from(i + 1, searched.st)
    ELSE topological_sort_from(i + 1, st)

reverse(list) == [i \in 1..Len(list) |-> list[Len(list) + 1 - i]]

\* a variant that returns the post-order as it was collected
topological_sort_post_order ==
    topological_sort_from(1, [visited |-> {}, in_stack |-> {}, result |-> <<>>])

topological_sort ==
    LET sorted == topological_sort_from(1, [visited |-> {}, in_stack |-> {}, result |-> <<>>])
    IN [code |-> sorted.code, order |-> reverse(sorted.order)]

\* each root gets its own dummy_result; visited and in_stack are shared
RECURSIVE has_cycles_from(_, _)
has_cycles_from(i, st) ==
    IF i > Len(nodes_) THEN FALSE
    ELSE IF nodes_[i].id \notin st.visited
         THEN LET searched == topological_sort_dfs(nodes_[i].id, [st EXCEPT !.result = <<>>]) IN
              IF searched.cycle THEN TRUE
              ELSE has_cycles_from(i + 1, searched.st)
    ELSE has_cycles_from(i + 1, st)

\* a variant that searches from the first node only
has_cycles_first_root ==
    /\ nodes_ # <<>>
    /\ topological_sort_dfs(nodes_[1].id,
                            [visited |-> {}, in_stack |-> {}, result |-> <<>>]).cycle

\* a variant that follows the connections of every kind
RECURSIVE led_to_by_any_kind(_)
led_to_by_any_kind(sources) ==
    LET step == sources \cup {connections_[i].to_node :
                                  i \in {j \in 1..Len(connections_) :
                                             connections_[j].from_node \in sources}}
    IN IF step = sources THEN sources ELSE led_to_by_any_kind(step)

has_cycles_any_kind ==
    \E i \in 1..Len(connections_) :
        connections_[i].from_node \in led_to_by_any_kind({connections_[i].to_node})

has_cycles == has_cycles_from(1, [visited |-> {}, in_stack |-> {}, result |-> <<>>])

RECURSIVE dfs_reachable(_, _)
RECURSIVE dfs_reachable_outgoing(_, _, _)

\* visited is passed by reference: the answer is the visited set after the call
dfs_reachable(current, visited) ==
    dfs_reachable_outgoing(get_connections_from(current), 1, visited \cup {current})

\* the for loop over outgoing, from position k
dfs_reachable_outgoing(outgoing, k, visited) ==
    IF k > Len(outgoing) THEN visited
    ELSE LET conn == get_connection(outgoing[k]) IN
         IF conn = nullptr THEN dfs_reachable_outgoing(outgoing, k + 1, visited)
         ELSE IF conn.to_node \notin visited
              THEN dfs_reachable_outgoing(outgoing, k + 1, dfs_reachable(conn.to_node, visited))
         ELSE dfs_reachable_outgoing(outgoing, k + 1, visited)

\* a variant that stops at the direct successors of start
find_reachable_nodes_one_step(start) ==
    dfs_reachable_outgoing(<<>>, 1,
        {start} \cup {get_connection(get_connections_from(start)[i]).to_node :
                         i \in {j \in 1..Len(get_connections_from(start)) :
                                   get_connection(get_connections_from(start)[j]) # nullptr}})

find_reachable_nodes(start) == dfs_reachable(start, {})

has_path(from, to) ==
    IF from = to THEN TRUE
    ELSE to \in find_reachable_nodes(from)

----------------------------------------------------------------------------
(* Node::validate and Graph::validate.  A result is the list of errors, the  *)
(* list of warnings and the is_valid flag, in the order the checks push      *)
(* them.                                                                     *)

ErrEmptyName == 100
ErrNoExecPorts == 101
ErrDuplicatePortIds == 102
ErrStartHasExecInput == 103
ErrStartNoExecOutput == 104
ErrEndHasExecOutput == 105
ErrEndNoExecInput == 106
ErrPureFunctionHasFlow == 107
ErrMissingStart == 500
WarnMissingEnd == 501
ErrMissingExecutionFlow == 501
ErrUnreachable == 503

get_exec_input_ports(node) ==
    SelectSeq(node.ports, LAMBDA port : is_input(port) /\ is_execution(port))

get_exec_output_ports(node) ==
    SelectSeq(node.ports, LAMBDA port : is_output(port) /\ is_execution(port))

\* has_execution_flow_ as Node::validate reads it: a set flag on a node without
\* Execution ports cannot arise, so the test that follows is the same for the
\* stored flag (node_add_exec_input, append_port, update_execution_flow_flag)
has_execution_flow(node) == \E i \in 1..Len(node.ports) : is_execution(node.ports[i])

node_validate(node) ==
    IF node.name = "" THEN ErrEmptyName
    ELSE IF /\ has_execution_flow(node)
            /\ get_exec_input_ports(node) = <<>>
            /\ get_exec_output_ports(node) = <<>>
         THEN ErrNoExecPorts
    ELSE IF \E i, j \in 1..Len(node.ports) : i # j /\ node.ports[i].id = node.ports[j].id
         THEN ErrDuplicatePortIds
    ELSE IF node.type = "Start" /\ Len(get_exec_input_ports(node)) > 0 THEN ErrStartHasExecInput
    ELSE IF node.type = "Start" /\ get_exec_output_ports(node) = <<>> THEN ErrStartNoExecOutput
    ELSE IF node.type = "End" /\ Len(get_exec_output_ports(node)) > 0 THEN ErrEndHasExecOutput
    ELSE IF node.type = "End" /\ get_exec_input_ports(node) = <<>> THEN ErrEndNoExecInput
    ELSE IF node.type = "PureFunction" /\ has_execution_flow(node) THEN ErrPureFunctionHasFlow
    ELSE OK

\* the first node of kind Start in nodes_, or nullptr
find_start_node ==
    IF \E i \in 1..Len(nodes_) : nodes_[i].type = "Start"
    THEN nodes_[CHOOSE i \in 1..Len(nodes_) :
                    /\ nodes_[i].type = "Start"
                    /\ \A j \in 1..(i - 1) : nodes_[j].type # "Start"]
    ELSE nullptr

find_end_nodes == SelectSeq(nodes_, LAMBDA node : node.type = "End")

ValidationResult == [is_valid |-> TRUE, errors |-> <<>>, warnings |-> <<>>]

\* an Error is its code and what its message names: the node for code 503
Error(code, message) == [code |-> code, message |-> message]

push_error(result, error) ==
    [result EXCEPT !.errors = Append(@, error), !.is_valid = FALSE]

\* Check 3, from node i on
RECURSIVE validate_nodes(_, _)
validate_nodes(i, result) ==
    IF i > Len(nodes_) THEN result
    ELSE IF node_validate(nodes_[i]) # OK
         THEN validate_nodes(i + 1, push_error(result, Error(node_validate(nodes_[i]), "")))
    ELSE validate_nodes(i + 1, result)

\* a variant of Check 6 that also reports the Start nodes it does not reach
RECURSIVE validate_reachable_any_kind(_, _, _)
validate_reachable_any_kind(i, reachable, result) ==
    IF i > Len(nodes_) THEN result
    ELSE IF nodes_[i].id \notin reachable
         THEN validate_reachable_any_kind(i + 1, reachable,
                                          push_error(result, Error(ErrUnreachable, nodes_[i].name)))
    ELSE validate_reachable_any_kind(i + 1, reachable, result)

\* Check 6, from node i on
RECURSIVE validate_reachable(_, _, _)
validate_reachable(i, reachable, result) ==
    IF i > Len(nodes_) THEN result
    ELSE IF nodes_[i].id \notin reachable /\ nodes_[i].type # "Start"
         THEN validate_reachable(i + 1, reachable, push_error(result, Error(ErrUnreachable, nodes_[i].name)))
    ELSE validate_reachable(i + 1, reachable, result)

\* Check 7, from connection i on
RECURSIVE validate_connections(_, _)
validate_connections(i, result) ==
    IF i > Len(connections_) THEN result
    ELSE LET conn == connections_[i]
             conn_result == validate_connection(conn.from_node, conn.from_port,
                                                conn.to_node, conn.to_port)
         IN IF conn_result # OK
            THEN validate_connections(i + 1, push_error(result, Error(conn_result, "")))
            ELSE validate_connections(i + 1, result)

\* a variant that stops at the first error
validate_first_error ==
    LET result == validate_connections(1, ValidationResult)
        start == find_start_node
    IN IF start = nullptr THEN push_error(ValidationResult, Error(ErrMissingStart, ""))
       ELSE IF validate_nodes(1, ValidationResult).errors # <<>>
            THEN push_error(ValidationResult, validate_nodes(1, ValidationResult).errors[1])
       ELSE IF has_cycles THEN push_error(ValidationResult, Error(ErrCycle, ""))
       ELSE IF connections_ = <<>> /\ Len(nodes_) > 1
            THEN push_error(ValidationResult, Error(ErrMissingExecutionFlow, ""))
       ELSE IF connections_ # <<>>
               /\ validate_reachable(1, find_reachable_nodes(start.id), ValidationResult).errors # <<>>
            THEN push_error(ValidationResult,
                     validate_reachable(1, find_reachable_nodes(start.id), ValidationResult).errors[1])
       ELSE IF result.errors # <<>> THEN push_error(ValidationResult, result.errors[1])
       ELSE ValidationResult

validate ==
    LET start == find_start_node
        check1 == IF start = nullptr THEN push_error(ValidationResult, Error(ErrMissingStart, ""))
                  ELSE ValidationResult
        check2 == IF find_end_nodes = <<>>
                  THEN [check1 EXCEPT !.warnings = Append(@, Error(WarnMissingEnd, ""))]
                  ELSE check1
        check3 == validate_nodes(1, check2)
        check4 == IF has_cycles THEN push_error(check3, Error(ErrCycle, "")) ELSE check3
        check5 == IF start # nullptr /\ connections_ = <<>> /\ Len(nodes_) > 1
                  THEN push_error(check4, Error(ErrMissingExecutionFlow, ""))
                  ELSE check4
        check6 == IF start # nullptr /\ connections_ # <<>>
                  THEN validate_reachable(1, find_reachable_nodes(start.id), check5)
                  ELSE check5
    IN validate_connections(1, check6)

----------------------------------------------------------------------------
(* NodeFactory (NodeFactory.cpp): the ports and properties of a created node *)

\* configure_ports: the add_*_port calls for the node type, with the port ids
\* generate_port_id hands out from port_id on
configure_ports(type, port_id) ==
    LET input(k, data_type, name) == Port(port_id + k, "Input", data_type, name)
        output(k, data_type, name) == Port(port_id + k, "Output", data_type, name)
    IN IF type = "Start" THEN <<output(0, "Execution", "start")>>
       ELSE IF type = "End" THEN <<input(0, "Execution", "end")>>
       ELSE IF type = "PrintString"
            THEN <<input(0, "Execution", "in_exec"), output(1, "Execution", "out_exec"),
                   input(2, "StringView", "value")>>
       ELSE IF type = "Branch"
            THEN <<input(0, "Execution", "in_exec"), input(1, "Bool", "condition"),
                   output(2, "Execution", "true_exec"), output(3, "Execution", "false_exec")>>
       ELSE IF type = "Sequence"
            THEN <<input(0, "Execution", "in_exec"), output(1, "Execution", "Then 0"),
                   output(2, "Execution", "Then 1")>>
       ELSE IF type = "ForLoop"
            THEN <<input(0, "Execution", "in_exec"), input(1, "Int32", "first_index"),
                   input(2, "Int32", "last_index"), output(3, "Execution", "loop_body"),
                   output(4, "Int32", "index"), output(5, "Execution", "completed")>>
       ELSE IF type = "StringLiteral" THEN <<output(0, "String", "output")>>
       ELSE IF type = "BoolLiteral" THEN <<output(0, "Bool", "output")>>
       ELSE IF type = "IntLiteral" THEN <<output(0, "Int32", "output")>>
       ELSE IF type = "Add"
            THEN <<input(0, "Int32", "a"), input(1, "Int32", "b"),
                   output(2, "Int32", "result")>>
       ELSE IF type = "GetVariable" THEN <<output(0, "Any", "value")>>
       ELSE IF type = "SetVariable"
            THEN <<input(0, "Execution", "in_exec"), input(1, "Any", "value"),
                   output(2, "Execution", "out_exec")>>
       ELSE <<>>

\* configure_ports: the set_property calls for the node type
configure_properties(type) ==
    IF type = "PrintString" THEN "value" :> "Hello, World!"
    ELSE IF type = "StringLiteral" THEN "value" :> "default string"
    ELSE IF type = "BoolLiteral" THEN "value" :> FALSE
    ELSE IF type = "IntLiteral" THEN "value" :> 0
    ELSE IF type \in {"GetVariable", "SetVariable"} THEN "variable_name" :> ""
    ELSE <<>>

\* NodeFactory::create_with_id, the node's ports numbered from port_id on
create_with_id(node_id, type, instance_name, port_id) ==
    [Node(node_id, type, instance_name, configure_ports(type, port_id))
        EXCEPT !.properties = configure_properties(type)]

\* Node::set_property
set_property(node, key, value) ==
    [node EXCEPT !.properties = map_put(@, key, value)]

\* Node::get_property<T>(key).value_or(default)
get_property_or(node, key, default) ==
    IF key \in DOMAIN node.properties THEN node.properties[key] ELSE default

----------------------------------------------------------------------------
(* CppCodeGenerator (CppCodeGenerator.cpp).  A stream is the sequence of the  *)
(* strings written to it.  The graph declares no variables.                  *)

RecursionLimit == 4

\* the characters of a std::string
Chars(text) == [i \in 1..Len(text) |-> SubSeq(text, i, i)]

\* std::stringstream::str
RECURSIVE str(_)
str(stream) == IF stream = <<>> THEN "" ELSE Head(stream) \o str(Tail(stream))

\* std::string::find(pattern) != npos
contains_text(text, pattern) ==
    \E i \in 1..(Len(text) - Len(pattern) + 1) :
        SubSeq(text, i, i + Len(pattern) - 1) = pattern

\* std::string(count, ' ')
RECURSIVE spaces(_)
spaces(count) == IF count = 0 THEN "" ELSE " " \o spaces(count - 1)

find_port_by_name(node, name) ==
    IF \E i \in 1..Len(node.ports) : node.ports[i].name = name
    THEN node.ports[CHOOSE i \in 1..Len(node.ports) :
                        /\ node.ports[i].name = name
                        /\ \A j \in 1..(i - 1) : node.ports[j].name # name]
    ELSE nullptr

find_node_with_port(port_id) ==
    IF \E i \in 1..Len(nodes_) : find_port(nodes_[i], port_id) # nullptr
    THEN nodes_[CHOOSE i \in 1..Len(nodes_) :
                    /\ find_port(nodes_[i], port_id) # nullptr
                    /\ \A j \in 1..(i - 1) : find_port(nodes_[j], port_id) = nullptr]
    ELSE nullptr

\* the connection the loops of get_connected_node and get_connected_port stop at
connection_at(port, i) ==
    \/ port.direction = "Input" /\ connections_[i].to_port = port.id
    \/ port.direction = "Output" /\ connections_[i].from_port = port.id

first_connection_of(port) ==
    IF \E i \in 1..Len(connections_) : connection_at(port, i)
    THEN connections_[CHOOSE i \in 1..Len(connections_) :
                          /\ connection_at(port, i)
                          /\ \A j \in 1..(i - 1) : ~connection_at(port, j)]
    ELSE nullptr

get_connected_node(port) ==
    LET connection == first_connection_of(port) IN
    IF connection = nullptr THEN nullptr
    ELSE IF port.direction = "Input" THEN get_node(connection.from_node)
    ELSE get_node(connection.to_node)

get_connected_port(port) ==
    LET connection == first_connection_of(port) IN
    IF connection = nullptr THEN nullptr
    ELSE IF port.direction = "Input"
         THEN LET source_node == get_node(connection.from_node) IN
              IF source_node # nullptr THEN find_port(source_node, connection.from_port)
              ELSE nullptr
    ELSE LET target_node == get_node(connection.to_node) IN
         IF target_node # nullptr THEN find_port(target_node, connection.to_port)
         ELSE nullptr

get_next_exec_node(node) ==
    LET exec_ports == get_exec_output_ports(node) IN
    IF exec_ports = <<>> THEN nullptr ELSE get_connected_node(exec_ports[1])

get_default_value(type) ==
    IF type = "String" THEN "std::string(\"\")"
    ELSE IF type = "Bool" THEN "false"
    ELSE IF type = "Int32" THEN "0"
    ELSE IF type = "Any" THEN "\"(unconnected)\""
    ELSE "/* unknown type */"

\* a variant that leaves the ports in the order they were declared
sort_by_name_unsorted(ports) == ports

\* std::sort by get_name() < get_name() of the Sequence branch; ports of equal
\* names keep their order
RECURSIVE sort_by_name(_)
sort_by_name(ports) ==
    IF ports = <<>> THEN <<>>
    ELSE LET least == CHOOSE i \in 1..Len(ports) :
                          /\ \A j \in 1..Len(ports) :
                                 ~string_less(Chars(ports[j].name), Chars(ports[i].name))
                          /\ \A j \in 1..(i - 1) :
                                 string_less(Chars(ports[i].name), Chars(ports[j].name))
         IN <<ports[least]>>
                \o sort_by_name([k \in 1..(Len(ports) - 1) |->
                                     IF k < least THEN ports[k] ELSE ports[k + 1]])

\* GraphCodeBuilder: its members after construction.  computing holds the source
\* ports whose expression is being generated, returned the expression handed
\* back for each connected source port, and overflow is set when an expression
\* is asked for while it is being generated: that recursion never ends.
GraphCodeBuilder ==
    [preamble |-> <<>>, main_body |-> <<>>, generated_expressions |-> <<>>,
     recursion_depth |-> 0, computing |-> {}, returned |-> <<>>, overflow |-> FALSE]

\* generated_expressions_.contains(cache_key)
cache_contains(generated_expressions, cache_key) ==
    cache_key \in DOMAIN generated_expressions

hand_back(builder, source_port, expression) ==
    [expression |-> expression,
     builder |-> [builder EXCEPT !.returned =
                      Append(@, [source |-> source_port.id, expression |-> expression])]]

RECURSIVE generate_data_expression(_, _)
RECURSIVE generate_exec_flow(_, _, _)

\* "(" a " + " b ")" of an Add node once both operands are generated
add_sum(a_expression, b) ==
    [expression |-> "(" \o a_expression \o " + " \o b.expression \o ")",
     builder |-> b.builder]

\* the second operand of an Add node, generated after the first
add_operands(port_b, a) ==
    add_sum(a.expression, generate_data_expression(port_b, a.builder))

\* const <type> var_<id> = <value>; in the preamble
declare(builder, var_name, declaration) ==
    [expression |-> var_name,
     builder |-> [builder EXCEPT !.preamble = Append(@, declaration)]]

\* the branch of generate_data_expression for the source node's type
expression_of(source_node, source_port, input_port, builder) ==
    LET type == source_node.type
        var_name == "var_" \o ToString(source_node.id)
    IN IF type = "GetVariable"
       THEN [expression |-> get_property_or(source_node, "variable_name",
                                            "/* unknown_var */"),
             builder |-> builder]
       ELSE IF type = "StringLiteral"
       THEN declare(builder, var_name,
                    "    const std::string " \o var_name \o " = \""
                        \o get_property_or(source_node, "value", "") \o "\";\n")
       ELSE IF type = "BoolLiteral"
       THEN declare(builder, var_name,
                    "    const bool " \o var_name \o " = "
                        \o (IF get_property_or(source_node, "value", FALSE)
                            THEN "true" ELSE "false") \o ";\n")
       ELSE IF type = "IntLiteral"
       THEN declare(builder, var_name,
                    "    const int " \o var_name \o " = "
                        \o ToString(get_property_or(source_node, "value", 0)) \o ";\n")
       ELSE IF type = "Add"
       THEN IF /\ find_port_by_name(source_node, "a") # nullptr
               /\ find_port_by_name(source_node, "b") # nullptr
            THEN add_operands(find_port_by_name(source_node, "b"),
                              generate_data_expression(
                                  find_port_by_name(source_node, "a"), builder))
            ELSE [expression |-> get_default_value("Int32"), builder |-> builder]
       ELSE IF find_start_node # nullptr /\ source_node.id = find_start_node.id
       THEN [expression |-> get_default_value(source_port.data_type), builder |-> builder]
       ELSE [expression |-> get_default_value(input_port.data_type), builder |-> builder]

\* generated_expressions_[cache_key] = expression and the return of it
cache_expression(source_port, computed) ==
    IF computed.builder.overflow THEN computed
    ELSE hand_back([computed.builder EXCEPT
                        !.generated_expressions =
                            map_put(@, source_port.id, computed.expression),
                        !.computing = @ \ {source_port.id}],
                   source_port, computed.expression)

\* generate_data_expression once the source port and its node are found
expression_from(source_node, source_port, input_port, builder) ==
    IF source_node = nullptr
    THEN [expression |-> "/* source node not found */", builder |-> builder]
    ELSE IF cache_contains(builder.generated_expressions, source_port.id)
    THEN hand_back(builder, source_port, builder.generated_expressions[source_port.id])
    ELSE IF source_port.id \in builder.computing
    THEN [expression |-> "", builder |-> [builder EXCEPT !.overflow = TRUE]]
    ELSE cache_expression(source_port,
                          expression_of(source_node, source_port, input_port,
                                        [builder EXCEPT !.computing =
                                             @ \cup {source_port.id}]))

\* generate_data_expression once the connected port is looked up
expression_through(source_port, input_port, builder) ==
    IF source_port = nullptr
    THEN [expression |-> get_default_value(input_port.data_type), builder |-> builder]
    ELSE expression_from(find_node_with_port(source_port.id), source_port,
                         input_port, builder)

generate_data_expression(input_port, builder) ==
    IF builder.overflow THEN [expression |-> "", builder |-> builder]
    ELSE IF input_port.direction # "Input"
    THEN [expression |-> "/* invalid port direction */", builder |-> builder]
    ELSE expression_through(get_connected_port(input_port), input_port, builder)

write(builder, text) == [builder EXCEPT !.main_body = Append(@, text)]

\* the loop over the sorted execution outputs of a Sequence node
RECURSIVE generate_each(_, _, _)
generate_each(exec_ports, indent, builder) ==
    IF exec_ports = <<>> THEN builder
    ELSE generate_each(Tail(exec_ports), indent,
                       generate_exec_flow(get_connected_node(Head(exec_ports)),
                                          indent, builder))

\* generate_exec_flow over a port found by name, when there is one
flow_through(port, indent, builder) ==
    IF port # nullptr THEN generate_exec_flow(get_connected_node(port), indent, builder)
    ELSE builder

\* main_body_ << indentation << text(expression), after the expression of a
\* port was generated
write_with(generated, before, after) ==
    write(generated.builder, before \o generated.expression \o after)

\* the expression of a port found by name, or the literal used without it
expression_or(port, builder, literal) ==
    IF port # nullptr THEN generate_data_expression(port, builder)
    ELSE [expression |-> literal, builder |-> builder]

\* PrintString: std::cout << <value> << std::endl;
print_string(msg_port, indentation, builder) ==
    IF msg_port # nullptr
    THEN write_with(generate_data_expression(msg_port, builder),
                    indentation \o "std::cout << ", " << std::endl;\n")
    ELSE builder

\* SetVariable: <variable_name> = <value>;
set_variable(var_name, value_port, indentation, builder) ==
    IF var_name # "" /\ value_port # nullptr
    THEN write_with(generate_data_expression(value_port, builder),
                    indentation \o var_name \o " = ", ";\n")
    ELSE builder

\* Branch, after the condition was generated
branch(current_node, indent, indentation, condition) ==
    write(flow_through(
              find_port_by_name(current_node, "false_exec"), indent + 1,
              write(flow_through(
                        find_port_by_name(current_node, "true_exec"), indent + 1,
                        write_with(condition, indentation \o "if (", ") {\n")),
                    indentation \o "} else {\n")),
          indentation \o "}\n")

\* generated_expressions_[index_out_port->get_id()] = loop_var
bind_index(index_out_port, loop_var, builder) ==
    IF index_out_port # nullptr
    THEN [builder EXCEPT !.generated_expressions =
              map_put(@, index_out_port.id, loop_var)]
    ELSE builder

\* ForLoop, after both indices were generated
for_loop_from_to(current_node, indent, indentation, loop_var, first_expression, last_idx) ==
    flow_through(
        find_port_by_name(current_node, "completed"), indent,
        write(flow_through(
                  find_port_by_name(current_node, "loop_body"), indent + 1,
                  write(bind_index(find_port_by_name(current_node, "index"), loop_var,
                                   last_idx.builder),
                        indentation \o "for (int " \o loop_var \o " = "
                            \o first_expression \o "; " \o loop_var \o " < "
                            \o last_idx.expression \o "; ++" \o loop_var \o ") {\n")),
              indentation \o "}\n"))

\* ForLoop, after the first index was generated
for_loop_from(current_node, indent, indentation, first_idx) ==
    for_loop_from_to(current_node, indent, indentation,
                     "i_" \o ToString(current_node.id), first_idx.expression,
                     expression_or(find_port_by_name(current_node, "last_index"),
                                   first_idx.builder, "10"))

\* the branch of generate_exec_flow for the node's type
statements_of(current_node, indent, indentation, builder) ==
    LET type == current_node.type IN
    IF type = "End" THEN write(builder, indentation \o "return 0;\n")
    ELSE IF type = "PrintString"
    THEN generate_exec_flow(
             get_next_exec_node(current_node), indent,
             print_string(find_port_by_name(current_node, "value"), indentation, builder))
    ELSE IF type = "SetVariable"
    THEN generate_exec_flow(
             get_next_exec_node(current_node), indent,
             set_variable(get_property_or(current_node, "variable_name", ""),
                          find_port_by_name(current_node, "value"), indentation, builder))
    ELSE IF type = "Sequence"
    THEN generate_each(sort_by_name(get_exec_output_ports(current_node)), indent, builder)
    ELSE IF type = "Branch"
    THEN branch(current_node, indent, indentation,
                expression_or(find_port_by_name(current_node, "condition"),
                              builder, "false"))
    ELSE IF type = "ForLoop"
    THEN for_loop_from(current_node, indent, indentation,
                       expression_or(find_port_by_name(current_node, "first_index"),
                                     builder, "0"))
    ELSE generate_exec_flow(get_next_exec_node(current_node), indent, builder)

\* --recursion_depth_ on the way out
leave(builder) == [builder EXCEPT !.recursion_depth = @ - 1]

generate_exec_flow(current_node, indent, builder) ==
    IF builder.overflow THEN builder
    ELSE IF current_node = nullptr THEN builder
    ELSE IF builder.recursion_depth > RecursionLimit
    THEN write(builder, spaces(indent * 4) \o "/* Recursion limit reached */\n")
    ELSE leave(statements_of(current_node, indent, spaces(indent * 4),
                             [builder EXCEPT !.recursion_depth = @ + 1]))

\* the text of a stream, with "return 0;" appended when it has none
with_return(main_body) ==
    main_body \o (IF ~contains_text(main_body, "return 0;") THEN "    return 0;\n" ELSE "")

assemble_final_code(builder) ==
    "// Generated by MultiCode C++ Code Generator\n"
        \o "#include <iostream>\n"
        \o "#include <string>\n\n"
        \o "int main() {\n"
        \o str(builder.preamble)
        \o with_return(str(builder.main_body))
        \o "}\n"

\* GraphCodeBuilder::build after the flow from the Start node was generated:
\* terminated is FALSE when the recursion never ends
built(builder) ==
    IF builder.overflow
    THEN [terminated |-> FALSE, has_value |-> FALSE, builder |-> builder]
    ELSE [terminated |-> TRUE, has_value |-> TRUE,
          value |-> assemble_final_code(builder), builder |-> builder]

\* GraphCodeBuilder::build once the Start node is looked up
build_from(start_node) ==
    IF start_node = nullptr
    THEN [terminated |-> TRUE, has_value |-> FALSE,
          error |-> "Graph must have a Start node.", builder |-> GraphCodeBuilder]
    ELSE IF get_exec_output_ports(start_node) # <<>>
    THEN built(generate_exec_flow(
                   get_connected_node(get_exec_output_ports(start_node)[1]),
                   1, GraphCodeBuilder))
    ELSE built(GraphCodeBuilder)

build == build_from(find_start_node)

\* CppCodeGenerator::generate
generate == build

----------------------------------------------------------------------------
(* NodeFactory (NodeFactory.hpp, NodeFactory.cpp): the id counters.  An       *)
(* atomic object is its modification order, the sequence of the values it    *)
(* has held; a read-modify-write acts on the last one, and a relaxed load    *)
(* returns any value not older than the last one the thread has seen.  The   *)
(* 64-bit counters are scaled down to FactoryIdBits bits.                    *)

FactoryIdBits == 4

FactoryIdSpace == 2 ^ FactoryIdBits

FactoryMaxId == FactoryIdSpace - 1

Threads == {1, 2}

\* a thread in no NodeFactory call; seen_node and seen_port are the positions
\* in the two modification orders of the last values the thread has seen
Idle ==
    [pc |-> "idle", ports_left |-> 0, max_node_id |-> 0, max_port_id |-> 0,
     atomic |-> "none", current |-> 0, seen_node |-> 1, seen_port |-> 1]

\* the thread after a call has returned
returned(thread) ==
    [Idle EXCEPT !.seen_node = thread.seen_node, !.seen_port = thread.seen_port]

\* the value an atomic object holds
latest(atomic) == atomic[Len(atomic)]

\* std::atomic::fetch_add(1)
fetch_add(atomic) ==
    [value |-> latest(atomic),
     atomic |-> Append(atomic, (latest(atomic) + 1) % FactoryIdSpace)]

\* the atomic object sync_atomic is working on
atomic_of(thread) == IF thread.atomic = "node" THEN next_node_id_ ELSE next_port_id_

\* the positions of the values a relaxed load by the thread can return
readable(thread) ==
    (IF thread.atomic = "node" THEN thread.seen_node ELSE thread.seen_port)
        ..Len(atomic_of(thread))

\* the thread after it has seen the value at a position of the atomic object
saw(thread, position) ==
    IF thread.atomic = "node" THEN [thread EXCEPT !.seen_node = position]
    ELSE [thread EXCEPT !.seen_port = position]

\* new_value of sync_atomic: max_node_id.value + 1 or max_port_id.value + 1
new_value_of(thread) ==
    IF thread.atomic = "node" THEN (thread.max_node_id + 1) % FactoryIdSpace
    ELSE (thread.max_port_id + 1) % FactoryIdSpace

----------------------------------------------------------------------------
(* Graph: the public mutators.  A call that returns an error changes nothing *)
(* (its early return is the guard's other branch); last names the last call  *)
(* that went through.                                                        *)

NoCall == [op |-> "none"]

Called(op, id) == [op |-> op, id |-> id]

Init ==
    /\ nodes_ = <<>>
    /\ node_lookup_ = {}
    /\ connections_ = <<>>
    /\ connection_lookup_ = <<>>
    /\ adjacency_out_ = <<>>
    /\ adjacency_in_ = <<>>
    /\ next_connection_id_ = 1
    /\ last = Called("Graph", 0)
    /\ call = NoCall
    /\ next_node_id_ = <<1>>
    /\ next_port_id_ = <<1>>
    /\ threads = [t \in Threads |-> Idle]
    /\ issued = <<>>

\* add_node(std::unique_ptr<Node>) returns the node's id, or 0 for a duplicate
add_node(node) ==
    IF node.id \in node_lookup_
    THEN UNCHANGED <<graph_vars, last>>
    ELSE /\ node_lookup_' = node_lookup_ \cup {node.id}
         /\ nodes_' = Append(nodes_, node)
         /\ adjacency_out_' = map_put(adjacency_out_, node.id, <<>>)
         /\ adjacency_in_' = map_put(adjacency_in_, node.id, <<>>)
         /\ last' = Called("add_node", node.id)
         /\ UNCHANGED <<connections_, connection_lookup_, next_connection_id_>>

remove_node_code(id) == validate_node_exists(id)

\* Graph::get_nodes: a span over nodes_
get_nodes == nodes_

\* the NodeId add_node returns: 0 for a node whose id is already in the graph
add_node_returns(node) == IF node.id \in node_lookup_ THEN 0 ELSE node.id

\* a variant that moves the last node into the place of the erased one
erase_node_swap_and_pop(nodes, id) ==
    LET gap == CHOOSE i \in 1..Len(nodes) : nodes[i].id = id IN
    [i \in 1..(Len(nodes) - 1) |-> IF i = gap THEN nodes[Len(nodes)] ELSE nodes[i]]

\* std::ranges::find_if on nodes_ and nodes_.erase(it)
erase_node(nodes, id) == SelectSeq(nodes, LAMBDA node : node.id # id)

remove_node(id) ==
    IF remove_node_code(id) # OK
    THEN UNCHANGED <<graph_vars, last>>
    ELSE LET g == remove_node_connections(Containers, id) IN
         /\ connections_' = g.connections
         /\ connection_lookup_' = g.lookup
         /\ node_lookup_' = node_lookup_ \ {id}
         /\ adjacency_out_' = map_erase(g.out, id)
         /\ adjacency_in_' = map_erase(g.in, id)
         /\ nodes_' = erase_node(nodes_, id)
         /\ last' = Called("remove_node", id)
         /\ UNCHANGED next_connection_id_

\* the error code connect returns, or OK
connect_code(from_node, from_port, to_node, to_port) ==
    validate_connection(from_node, from_port, to_node, to_port)

connect(from_node, from_port, to_node, to_port) ==
    IF connect_code(from_node, from_port, to_node, to_port) # OK
    THEN UNCHANGED <<graph_vars, last>>
    ELSE LET from_port_ptr == find_port(get_node(from_node), from_port)
             generated == generate_connection_id(next_connection_id_)
             conn == [id |-> generated.id,
                      from_node |-> from_node, from_port |-> from_port,
                      to_node |-> to_node, to_port |-> to_port,
                      type |-> connection_type_of(from_port_ptr)]
         IN /\ connections_' = Append(connections_, conn)
            /\ connection_lookup_' =
                   map_put(connection_lookup_, conn.id, Len(connections_) + 1)
            /\ adjacency_out_' =
                   map_put(adjacency_out_, from_node,
                           Append(subscript(adjacency_out_, from_node), conn.id))
            /\ adjacency_in_' =
                   map_put(adjacency_in_, to_node,
                           Append(subscript(adjacency_in_, to_node), conn.id))
            /\ next_connection_id_' = generated.counter
            /\ last' = Called("connect", conn.id)
            /\ UNCHANGED <<nodes_, node_lookup_>>

Disconnect(id) ==
    LET done == disconnect(Containers, id) IN
    IF done.code # OK
    THEN UNCHANGED <<graph_vars, last>>
    ELSE /\ connections_' = done.g.connections
         /\ connection_lookup_' = done.g.lookup
         /\ adjacency_out_' = done.g.out
         /\ adjacency_in_' = done.g.in
         /\ last' = Called("disconnect", id)
         /\ UNCHANGED <<nodes_, node_lookup_, next_connection_id_>>

\* the error code append_connection returns, or OK
append_connection_code(connection) ==
    LET code == validate_connection(connection.from_node, connection.from_port,
                                    connection.to_node, connection.to_port)
        from_node_ptr == get_node(connection.from_node)
        from_port_ptr == IF from_node_ptr # nullptr
                         THEN find_port(from_node_ptr, connection.from_port)
                         ELSE nullptr
    IN IF connection.id = 0 THEN ErrZeroConnectionId
       ELSE IF connection.id \in DOMAIN connection_lookup_ THEN ErrConnectionExists
       ELSE IF code # OK THEN code
       ELSE IF from_port_ptr = nullptr THEN ErrSourcePortMissing
       ELSE IF connection_type_of(from_port_ptr) # connection.type
            THEN ErrConnectionTypeMismatch
       ELSE OK

\* append_connection past its checks: storage, lookup, adjacency and counter
append_stored(connection) ==
         /\ connections_' = Append(connections_, connection)
         /\ connection_lookup_' =
                map_put(connection_lookup_, connection.id, Len(connections_) + 1)
         /\ adjacency_out_' =
                map_put(adjacency_out_, connection.from_node,
                        Append(subscript(adjacency_out_, connection.from_node),
                               connection.id))
         /\ adjacency_in_' =
                map_put(adjacency_in_, connection.to_node,
                        Append(subscript(adjacency_in_, connection.to_node),
                               connection.id))
         /\ next_connection_id_' =
                seed_connection_counter(next_connection_id_,
                                        (connection.id + 1) % IdSpace)
         /\ last' = Called("append_connection", connection.id)
         /\ UNCHANGED <<nodes_, node_lookup_>>

append_connection(connection) ==
    IF append_connection_code(connection) # OK
    THEN UNCHANGED <<graph_vars, last>>
    ELSE append_stored(connection)

clear ==
    /\ nodes_' = <<>>
    /\ node_lookup_' = {}
    /\ connections_' = <<>>
    /\ connection_lookup_' = <<>>
    /\ adjacency_out_' = <<>>
    /\ adjacency_in_' = <<>>
    /\ next_connection_id_' = 1
    /\ last' = Called("clear", 0)

Connection(id, link, type) ==
    [id |-> id, from_node |-> link[1], from_port |-> link[2],
     to_node |-> link[3], to_port |-> link[4], type |-> type]

----------------------------------------------------------------------------
(* Spec: the whole life of one Graph, every mutator, restored connections    *)
(* with any id of the id space.  The links offered are the execution links   *)
(* 1 -> 2, 2 -> 1, 2 -> 3 and the data link 1 -> 2.                          *)

Links == {<<1, 2, 2, 4>>, <<2, 5, 1, 1>>, <<2, 5, 3, 7>>, <<1, 3, 2, 6>>}

AddNode == \E node \in NodePool : add_node(node) /\ UNCHANGED <<call, factory_vars>>

RemoveNode == \E id \in NodeArgs : remove_node(id) /\ UNCHANGED <<call, factory_vars>>

Connect ==
    /\ Len(connections_) < MaxConns
    /\ \E link \in Links : connect(link[1], link[2], link[3], link[4]) /\ UNCHANGED <<call, factory_vars>>

DisconnectAny == \E id \in ConnectionIdArgs : Disconnect(id) /\ UNCHANGED <<call, factory_vars>>

AppendConnection ==
    /\ Len(connections_) < MaxConns
    /\ \E link \in Links, id \in ConnectionIdArgs, type \in {"Execution", "Data"} :
           append_connection(Connection(id, link, type)) /\ UNCHANGED <<call, factory_vars>>

Clear == clear /\ UNCHANGED <<call, factory_vars>>

Next == AddNode \/ RemoveNode \/ Connect \/ DisconnectAny \/ AppendConnection \/ Clear

Spec == Init /\ [][Next]_vars

----------------------------------------------------------------------------
(* SpecBuild: a graph is built up from nodes and connections.  Every pair of *)
(* endpoints is offered to connect; a restored connection carries the next   *)
(* free id.                                                                  *)

MaxBuildConns == 3

ConnectAny ==
    /\ Len(connections_) < MaxBuildConns
    /\ \E from_node \in NodeArgs, to_node \in NodeArgs :
           \E from_port \in PortArgsOf(from_node), to_port \in PortArgsOf(to_node) :
               connect(from_node, from_port, to_node, to_port) /\ UNCHANGED <<call, factory_vars>>

AppendNext ==
    /\ Len(connections_) < MaxBuildConns
    /\ \E from_node \in NodeArgs, to_node \in NodeArgs :
           \E from_port \in PortArgsOf(from_node), to_port \in PortArgsOf(to_node) :
               \E type \in {"Execution", "Data"} :
                   /\ append_connection(
                          Connection(next_connection_id_,
                                     <<from_node, from_port, to_node, to_port>>, type))
                   /\ UNCHANGED <<call, factory_vars>>

NextBuild == AddNode \/ ConnectAny \/ AppendNext

SpecBuild == Init /\ [][NextBuild]_vars

----------------------------------------------------------------------------
(* SpecCalls: one connect call on a graph of some of the nodes, with its     *)
(* arguments and the code it returns on record.                              *)

PortArgs == UNION {PortArgsOf(node_id) : node_id \in NodeArgs}

AddNodeFirst == call = NoCall /\ AddNode

ConnectCall ==
    /\ call = NoCall
    /\ \E from_node \in NodeArgs, to_node \in NodeArgs :
           \E from_port \in PortArgs, to_port \in PortArgs :
               /\ connect(from_node, from_port, to_node, to_port)
               /\ call' = [op |-> "connect",
                           from_node |-> from_node, from_port |-> from_port,
                           to_node |-> to_node, to_port |-> to_port,
                           code |-> connect_code(from_node, from_port, to_node, to_port)]
    /\ UNCHANGED factory_vars

NextCalls == AddNodeFirst \/ ConnectCall

SpecCalls == Init /\ [][NextCalls]_vars

----------------------------------------------------------------------------
(* SpecValidate: a program graph of Start, Function and End nodes is built,  *)
(* ports are removed through get_node_mut, and validate() is called; call    *)
(* holds the result of a validate() made on the current state.               *)

MaxProgramConns == 2

ProgramNodes ==
    {Node(1, "Start", "start", <<Port(1, "Output", "Execution", "start")>>),
     Node(2, "Start", "start2", <<Port(2, "Output", "Execution", "start")>>),
     Node(3, "Function", "f", <<Port(3, "Input", "Execution", "exec_in"),
                                Port(4, "Output", "Execution", "exec_out")>>),
     Node(4, "End", "end", <<Port(5, "Input", "Execution", "end")>>)}

\* start -> f, start2 -> f, f -> end, start -> end, and end -> f through the same
\* two ports as f -> end
ProgramLinks ==
    {<<1, 1, 3, 3>>, <<2, 2, 3, 3>>, <<3, 4, 4, 5>>, <<1, 1, 4, 5>>, <<4, 5, 3, 4>>}

RemovablePorts == {<<1, 1>>, <<3, 4>>, <<4, 5>>}

\* Node::remove_port on the node get_node_mut(node_id) returns
remove_port(node_id, port_id) ==
    /\ get_node(node_id) # nullptr
    /\ find_port(get_node(node_id), port_id) # nullptr
    /\ nodes_' = [i \in 1..Len(nodes_) |->
                     IF nodes_[i].id = node_id
                     THEN [nodes_[i] EXCEPT !.ports =
                               SelectSeq(@, LAMBDA port : port.id # port_id)]
                     ELSE nodes_[i]]
    /\ last' = Called("remove_port", port_id)
    /\ UNCHANGED <<node_lookup_, connections_, connection_lookup_,
                   adjacency_out_, adjacency_in_, next_connection_id_>>

AddProgramNode ==
    \E node \in ProgramNodes :
        add_node(node) /\ call' = NoCall /\ UNCHANGED factory_vars

ConnectProgram ==
    /\ Len(connections_) < MaxProgramConns
    /\ \E link \in ProgramLinks :
           /\ connect(link[1], link[2], link[3], link[4])
           /\ call' = NoCall
           /\ UNCHANGED factory_vars

RemovePort ==
    \E port \in RemovablePorts :
        remove_port(port[1], port[2]) /\ call' = NoCall /\ UNCHANGED factory_vars

Validate ==
    /\ call = NoCall
    /\ call' = [op |-> "validate", result |-> validate]
    /\ UNCHANGED <<graph_vars, last, factory_vars>>

NextValidate == AddProgramNode \/ ConnectProgram \/ RemovePort \/ Validate

SpecValidate == Init /\ [][NextValidate]_vars

----------------------------------------------------------------------------
(* SpecPorts: Port::can_connect_to is called once on two distinct ports of   *)
(* any direction and data type; call holds the two ports and the answer.     *)

PortDirections == {"Input", "Output", "InOut"}

CanConnectTo ==
    /\ call = NoCall
    /\ \E self_direction \in PortDirections, other_direction \in PortDirections :
           \E self_type \in DataTypes, other_type \in DataTypes :
               LET self == Port(1, self_direction, self_type, "self")
                   other == Port(2, other_direction, other_type, "other")
               IN call' = [op |-> "can_connect_to", self |-> self, other |-> other,
                           result |-> can_connect_to(self, other)]
    /\ UNCHANGED <<graph_vars, last, factory_vars>>

NextPorts == CanConnectTo

SpecPorts == Init /\ [][NextPorts]_vars

----------------------------------------------------------------------------
(* SpecNormalize: normalize_type_name is called once on a descriptor string  *)
(* over the tokenizer's alphabet, then once more on its own result; call     *)
(* holds the string and both results.                                        *)

MaxLen == 4

DescriptorChars == {"a", "B", "<", ">", ",", "=", " "}

Descriptors == UNION {[1..n -> DescriptorChars] : n \in 0..MaxLen}

Normalize ==
    /\ call = NoCall
    /\ \E value \in Descriptors :
           call' = [op |-> "normalize_type_name", value |-> value,
                    once |-> normalize_type_name(value),
                    twice |-> normalize_type_name(normalize_type_name(value))]
    /\ UNCHANGED <<graph_vars, last, factory_vars>>

NextNormalize == Normalize

SpecNormalize == Init /\ [][NextNormalize]_vars

----------------------------------------------------------------------------
(* SpecDescriptors: two generic type descriptors are written out from        *)
(* expression trees, the first one in some letter case, spacing and order of *)
(* its named arguments, and are normalized and compared; call holds the two  *)
(* trees, the two strings and the results.                                   *)

LeafNames == {<<"a">>, <<"b">>, <<"a", "n", "y">>}

HeadNames == {<<"m">>, <<"s", ":", ":", "v">>}

\* a tree has the shape the parser builds: head and arguments, each argument a
\* segment of key (empty when positional) and value; named segments are kept
\* after the positional ones and in key order
TypeExpression(head, arguments) == [head |-> head, arguments |-> arguments]

TypeSegment(key, value) == [key |-> key, value |-> value]

Leaves == {TypeExpression(name, <<>>) : name \in LeafNames}

ArgumentLists(values) ==
    {<<TypeSegment(<<>>, x)>> : x \in values}
        \cup {<<TypeSegment(<<>>, x), TypeSegment(<<>>, y)>> : x \in values, y \in values}
        \cup {<<TypeSegment(<<"j">>, x), TypeSegment(<<"k">>, y)>> : x \in values, y \in values}
        \cup {<<TypeSegment(<<>>, x), TypeSegment(<<"k">>, y)>> : x \in values, y \in values}

Generics == {TypeExpression(head, arguments) :
                head \in HeadNames, arguments \in ArgumentLists(Leaves)}

NestedGenerics ==
    {TypeExpression(<<"m">>, <<TypeSegment(<<"j">>, outer), TypeSegment(<<"k">>, inner)>>) :
        outer \in Leaves,
        inner \in {TypeExpression(<<"m">>, arguments) :
                      arguments \in ArgumentLists({TypeExpression(<<"a">>, <<>>),
                                                   TypeExpression(<<"b">>, <<>>)})}}

Expressions == Leaves \cup Generics \cup NestedGenerics

Styles == [upper : BOOLEAN, spaced : BOOLEAN, reversed : BOOLEAN]

PlainStyle == [upper |-> FALSE, spaced |-> FALSE, reversed |-> FALSE]

toupper(ch) ==
    IF ch \in LowerChars
    THEN UpperSeq[CHOOSE i \in 1..Len(LowerSeq) : LowerSeq[i] = ch]
    ELSE ch

WriteIdentifier(name, style) ==
    IF style.upper THEN [i \in 1..Len(name) |-> toupper(name[i])] ELSE name

Space(style) == IF style.spaced THEN <<" ", "\t">> ELSE <<>>

\* the named segments in reverse order, after the positional ones
ReverseNamed(arguments) ==
    SelectSeq(arguments, LAMBDA segment : segment.key = <<>>)
        \o reverse(SelectSeq(arguments, LAMBDA segment : segment.key # <<>>))

RECURSIVE WriteExpression(_, _)
RECURSIVE WriteArguments(_, _)

WriteExpression(expression, style) ==
    Space(style) \o WriteIdentifier(expression.head, style) \o Space(style)
        \o (IF expression.arguments = <<>> THEN <<>>
            ELSE <<"<">>
                     \o WriteArguments(IF style.reversed
                                       THEN ReverseNamed(expression.arguments)
                                       ELSE expression.arguments, style)
                     \o <<">">> \o Space(style))

WriteArguments(arguments, style) ==
    LET segment == arguments[1]
        written == (IF segment.key = <<>> THEN <<>>
                    ELSE Space(style) \o WriteIdentifier(segment.key, style)
                             \o Space(style) \o <<"=">>)
                       \o WriteExpression(segment.value, style)
    IN IF Len(arguments) = 1 THEN written
       ELSE written \o <<",">> \o WriteArguments(Tail(arguments), style)

CompareDescriptors ==
    /\ call = NoCall
    /\ \E lhs \in Expressions, rhs \in Expressions, style \in Styles :
           LET lhs_name == WriteExpression(lhs, style)
               rhs_name == WriteExpression(rhs, PlainStyle)
           IN call' = [op |-> "are_type_names_compatible",
                       lhs |-> lhs, rhs |-> rhs, style |-> style,
                       lhs_name |-> lhs_name, rhs_name |-> rhs_name,
                       lhs_normalized |-> normalize_type_name(lhs_name),
                       rhs_normalized |-> normalize_type_name(rhs_name),
                       compatible |-> are_type_names_compatible(lhs_name, rhs_name)]
    /\ UNCHANGED <<graph_vars, last, factory_vars>>

NextDescriptors == CompareDescriptors

SpecDescriptors == Init /\ [][NextDescriptors]_vars

----------------------------------------------------------------------------
(* Properties of the connection storage and its indices *)

Stored == {connections_[i] : i \in 1..Len(connections_)}

Elements(list) == {list[i] : i \in 1..Len(list)}

NoRepeats(list) == \A i, j \in 1..Len(list) : i # j => list[i] # list[j]

IncidentTo(node) ==
    {i \in 1..Len(connections_) :
        connections_[i].from_node = node \/ connections_[i].to_node = node}

\* C1: every stored connection c has c.id in out[c.from_node] and in in[c.to_node];
\* every id in an out[n] / in[n] list resolves to a stored connection whose
\* from_node / to_node is n; no id occurs twice in a list.
AdjacencyMirrorsStorage ==
    /\ \A c \in Stored :
           /\ c.from_node \in DOMAIN adjacency_out_
           /\ c.id \in Elements(adjacency_out_[c.from_node])
           /\ c.to_node \in DOMAIN adjacency_in_
           /\ c.id \in Elements(adjacency_in_[c.to_node])
    /\ \A n \in DOMAIN adjacency_out_ :
           /\ NoRepeats(adjacency_out_[n])
           /\ \A id \in Elements(adjacency_out_[n]) :
                  has_connection(id) /\ get_connection(id).from_node = n
    /\ \A n \in DOMAIN adjacency_in_ :
           /\ NoRepeats(adjacency_in_[n])
           /\ \A id \in Elements(adjacency_in_[n]) :
                  has_connection(id) /\ get_connection(id).to_node = n

\* C2: a remove_node(n) that succeeds leaves no stored connection with n as an
\* endpoint, lowers connection_count() by the number of connections that were
\* incident to n, leaves has_connection false for each of their ids and has_node(n)
\* false, and keeps every other connection stored under its id, unchanged.
RemoveNodeRemovesExactlyIncident ==
    [][last'.op = "remove_node" =>
         LET n == last'.id IN
         /\ \A i \in 1..Len(connections_') :
                connections_'[i].from_node # n /\ connections_'[i].to_node # n
         /\ Len(connections_') = Len(connections_) - Cardinality(IncidentTo(n))
         /\ \A i \in IncidentTo(n) : connections_[i].id \notin DOMAIN connection_lookup_'
         /\ n \notin node_lookup_'
         /\ \A i \in (1..Len(connections_)) \ IncidentTo(n) :
                /\ connections_[i].id \in DOMAIN connection_lookup_'
                /\ connections_'[connection_lookup_'[connections_[i].id]] = connections_[i]
      ]_vars

\* C7: the ids of the stored connections are non-zero and pairwise distinct, and
\* the connection-id counter is strictly greater than every stored id.
StoredIdsDistinctBelowCounter ==
    /\ \A c \in Stored : c.id # 0
    /\ \A i, j \in 1..Len(connections_) : i # j => connections_[i].id # connections_[j].id
    /\ \A c \in Stored : next_connection_id_ > c.id

\* C8: no mutating operation ever decreases the connection-id counter (which is
\* what keeps connect from returning an id it returned before).
CounterNeverDecreases == [][next_connection_id_' >= next_connection_id_]_vars

\* C9: after every append_connection(c) that succeeds the counter is strictly
\* greater than c.id and not lower than before the call.
AppendKeepsCounterAboveId ==
    [][last'.op = "append_connection" =>
         /\ next_connection_id_' > last'.id
         /\ next_connection_id_' >= next_connection_id_
      ]_vars

----------------------------------------------------------------------------
(* Properties of connect *)

PortExists(node, port) == get_node(node) # nullptr /\ find_port(get_node(node), port) # nullptr

\* C3: connect with from_node = to_node and both ports on that node fails with the
\* self-reference code, whatever the two ports are.
SelfConnectIsSelfReference ==
    (/\ call.op = "connect"
     /\ call.from_node = call.to_node
     /\ PortExists(call.from_node, call.from_port)
     /\ PortExists(call.to_node, call.to_port))
        => call.code = SelfReference

LinkOf(c) == <<c.from_node, c.from_port, c.to_node, c.to_port>>

\* C4: connect goes through only when no stored connection has the same
\* (from_node, from_port, to_node, to_port), so no two stored connections share it.
ConnectRejectsDuplicateLink ==
    [][last'.op = "connect" =>
         /\ \A c \in Stored : LinkOf(c) # LinkOf(connections_'[Len(connections_')])
         /\ \A i, j \in 1..Len(connections_') :
                i # j => LinkOf(connections_'[i]) # LinkOf(connections_'[j])
      ]_vars

\* C5: connect fails with NodeNotFound when from_node or to_node is absent, with
\* SourcePortNotFound when both nodes exist but from_port is not on from_node, and
\* with TargetPortNotFound when only to_port is missing on to_node.
ConnectClassifiesLookupFailures ==
    call.op = "connect" =>
        /\ (~has_node(call.from_node) \/ ~has_node(call.to_node))
               => call.code = NodeNotFound
        /\ (/\ has_node(call.from_node) /\ has_node(call.to_node)
            /\ ~PortExists(call.from_node, call.from_port))
               => call.code = SourcePortNotFound
        /\ (/\ has_node(call.from_node) /\ has_node(call.to_node)
            /\ PortExists(call.from_node, call.from_port)
            /\ ~PortExists(call.to_node, call.to_port))
               => call.code = TargetPortNotFound

\* C6: every stored connection has kind Execution exactly when its source port is
\* an Execution port, otherwise Data, and its target port is an Execution port
\* exactly when its source port is.
KindMatchesPorts ==
    \A c \in Stored :
        LET from_port_ptr == find_port(get_node(c.from_node), c.from_port)
            to_port_ptr == find_port(get_node(c.to_node), c.to_port)
        IN /\ c.type = (IF is_execution(from_port_ptr) THEN "Execution" ELSE "Data")
           /\ is_execution(to_port_ptr) = is_execution(from_port_ptr)

\* an Execution and a Data connection are stored, the latest one restored by
\* append_connection after a connect
KindMatchesPortsWitness ==
    /\ last.op = "append_connection"
    /\ \E c \in Stored : c.type = "Execution"
    /\ \E c \in Stored : c.type = "Data"

\* C10: on a graph with at least one node, has_cycles() is true exactly when
\* topological_sort() returns the cycle error.
HasCyclesIffSortFails ==
    Len(nodes_) >= 1 => (has_cycles <=> topological_sort.code = ErrCycle)

\* three nodes, a cycle among them: both report it
HasCyclesIffSortFailsWitness ==
    Len(nodes_) = 3 /\ has_cycles /\ topological_sort.code = ErrCycle

----------------------------------------------------------------------------
(* Properties of the graph algorithms *)

NodeIds == {nodes_[i].id : i \in 1..Len(nodes_)}

ExecutionEdges == {<<c.from_node, c.to_node>> : c \in {s \in Stored : s.type = "Execution"}}

AllEdges == {<<c.from_node, c.to_node>> : c \in Stored}

\* the nodes a directed path of one or more of the edges leads to from the sources
RECURSIVE ReachedFrom(_, _)
ReachedFrom(sources, edges) ==
    LET step == sources \cup {e[2] : e \in {d \in edges : d[1] \in sources}}
    IN IF step = sources THEN sources ELSE ReachedFrom(step, edges)

Successors(node, edges) == {e[2] : e \in {d \in edges : d[1] = node}}

OnCycle(node, edges) == node \in ReachedFrom(Successors(node, edges), edges)

Acyclic(edges) == \A e \in edges : ~OnCycle(e[1], edges)

PositionIn(order, node) == CHOOSE i \in 1..Len(order) : order[i] = node

----------------------------------------------------------------------------
(* Properties of validate() *)

StartNodes == {i \in 1..Len(nodes_) : nodes_[i].type = "Start"}

\* C13: validate() reports code 500 as its first error when the graph has no Start
\* node, and reports the graph invalid when it holds two or more Start nodes.
ValidateRequiresExactlyOneStart ==
    call.op = "validate" =>
        /\ StartNodes = {} =>
               (call.result.errors # <<>> /\ call.result.errors[1].code = ErrMissingStart)
        /\ Cardinality(StartNodes) >= 2 => ~call.result.is_valid

\* the nodes no directed path of stored connections leads to from the first Start node
UnreachableFromStart ==
    {i \in 1..Len(nodes_) :
        /\ nodes_[i].type # "Start"
        /\ nodes_[i].id \notin ReachedFrom({find_start_node.id}, AllEdges)}

ErrorsWithCode(result, code) == SelectSeq(result.errors, LAMBDA error : error.code = code)

\* C14: when a Start node exists and at least one connection is stored, validate()
\* reports a 503 error for a node exactly when the node is not of kind Start and is
\* not reachable from the Start node, one error per such node, and then the result
\* is invalid.
ValidateReportsEachUnreachableNode ==
    (call.op = "validate" /\ find_start_node # nullptr /\ connections_ # <<>>) =>
        LET reported == ErrorsWithCode(call.result, ErrUnreachable) IN
        /\ \A i \in 1..Len(nodes_) :
               (\E k \in 1..Len(reported) : reported[k].message = nodes_[i].name)
                   <=> i \in UnreachableFromStart
        /\ Len(reported) = Cardinality(UnreachableFromStart)
        /\ UnreachableFromStart # {} => ~call.result.is_valid

\* start -> end is stored, f is in the graph and is the one node reported
ValidateReportsEachUnreachableNodeWitness ==
    /\ call.op = "validate"
    /\ Len(nodes_) = 4
    /\ \E c \in Stored : c.from_node = 1 /\ c.to_node = 4
    /\ Cardinality(UnreachableFromStart) = 1
    /\ Len(ErrorsWithCode(call.result, ErrUnreachable)) = 1

InvalidNodes == {i \in 1..Len(nodes_) : node_validate(nodes_[i]) # OK}

InvalidConnections ==
    {i \in 1..Len(connections_) :
        validate_connection(connections_[i].from_node, connections_[i].from_port,
                            connections_[i].to_node, connections_[i].to_port) # OK}

NodeErrorCodes == ErrEmptyName..ErrPureFunctionHasFlow

ConnectionErrorCodes == {ErrPortsIncompatible, ErrNodeNotFound, ErrPortNotFound, ErrSelfLoop}

CountIf(condition) == IF condition THEN 1 ELSE 0

\* every violated rule instance of the graph has its error in the result
ReportsEveryViolation(result) ==
    LET count(codes) == Len(SelectSeq(result.errors, LAMBDA error : error.code \in codes))
        has_start == StartNodes # {}
    IN /\ count({ErrMissingStart}) = CountIf(~has_start)
       /\ count(NodeErrorCodes) = Cardinality(InvalidNodes)
       /\ count({ErrCycle}) = CountIf(~Acyclic(ExecutionEdges))
       /\ count({ErrMissingExecutionFlow}) =
              CountIf(has_start /\ connections_ = <<>> /\ Len(nodes_) > 1)
       /\ count({ErrUnreachable}) =
              (IF has_start /\ connections_ # <<>> THEN Cardinality(UnreachableFromStart) ELSE 0)
       /\ count(ConnectionErrorCodes) = Cardinality(InvalidConnections)
       /\ Len(result.errors) =
              count({ErrMissingStart}) + count(NodeErrorCodes) + count({ErrCycle})
                  + count({ErrMissingExecutionFlow}) + count({ErrUnreachable})
                  + count(ConnectionErrorCodes)
       /\ result.is_valid <=> result.errors = <<>>

\* C15: one validate() call reports an error for every violated rule instance
\* (missing Start, each invalid node, execution cycle, missing execution flow, each
\* unreachable node, each stored connection failing connection validation), never
\* only the first; is_valid is false exactly when the error list is non-empty; and
\* the call leaves the graph as it was.
ValidateAggregatesAllViolations ==
    [][call'.op = "validate" =>
           /\ UNCHANGED graph_vars
           /\ ReportsEveryViolation(call'.result)
      ]_vars

\* no Start node, an End node that lost its input port, a cycle f -> end -> f, and
\* two connections whose port is gone: five errors in one result
ValidateAggregatesAllViolationsWitness ==
    /\ call.op = "validate"
    /\ StartNodes = {}
    /\ InvalidNodes # {}
    /\ ~Acyclic(ExecutionEdges)
    /\ Cardinality(InvalidConnections) = 2
    /\ Len(call.result.errors) = 5

----------------------------------------------------------------------------
(* Properties of Port::can_connect_to *)

\* Output to Input, Input to Output, or an InOut port on either side
DirectionsCompatible(self, other) ==
    \/ self.direction = "Output" /\ other.direction = "Input"
    \/ self.direction = "Input" /\ other.direction = "Output"
    \/ "InOut" \in {self.direction, other.direction}

\* C16: for two distinct ports with compatible directions, can_connect_to is true
\* when both are Execution ports and false when exactly one is, whatever the data
\* type of the other port is (Any and Auto included).
ExecutionConnectsOnlyToExecution ==
    (call.op = "can_connect_to" /\ DirectionsCompatible(call.self, call.other)) =>
        LET self_exec == call.self.data_type = "Execution"
            other_exec == call.other.data_type = "Execution"
        IN /\ (self_exec /\ other_exec) => call.result
           /\ (self_exec # other_exec) => ~call.result

\* an Execution output asked to connect to an Any input: refused
ExecutionConnectsOnlyToExecutionWitness ==
    /\ call.op = "can_connect_to"
    /\ call.self.direction = "Output" /\ call.self.data_type = "Execution"
    /\ call.other.direction = "Input" /\ call.other.data_type = "Any"
    /\ ~call.result

SizedIntegers == {"Int8", "Int16", "Int32", "Int64", "UInt8", "UInt16", "UInt32", "UInt64"}

BitWidth(type) ==
    CASE type \in {"Int8", "UInt8"} -> 8
      [] type \in {"Int16", "UInt16"} -> 16
      [] type \in {"Int32", "UInt32"} -> 32
      [] type \in {"Int64", "UInt64"} -> 64

IsSigned(type) == type \in {"Int8", "Int16", "Int32", "Int64"}

\* C17: for two different sized-integer types a and b, an a output connects to a
\* b input exactly when a and b have the same signedness and b is wider than a.
IntegerWideningIsOneWay ==
    (/\ call.op = "can_connect_to"
     /\ call.self.direction = "Output" /\ call.other.direction = "Input"
     /\ call.self.data_type \in SizedIntegers /\ call.other.data_type \in SizedIntegers
     /\ call.self.data_type # call.other.data_type)
        => (call.result <=>
                /\ IsSigned(call.self.data_type) = IsSigned(call.other.data_type)
                /\ BitWidth(call.self.data_type) < BitWidth(call.other.data_type))

\* an Int32 output connects to an Int64 input
IntegerWideningIsOneWayWitness ==
    /\ call.op = "can_connect_to"
    /\ call.self.direction = "Output" /\ call.self.data_type = "Int32"
    /\ call.other.direction = "Input" /\ call.other.data_type = "Int64"
    /\ call.result

NumericSources == SizedIntegers \cup {"Char", "Float", "Double"}

\* C18: every numeric output (sized integer, Char, Float, Double) connects to a Bool
\* input, and a Bool output connects to no numeric input.
NumericToBoolIsOneWay ==
    (call.op = "can_connect_to"
         /\ call.self.direction = "Output" /\ call.other.direction = "Input") =>
        /\ (call.self.data_type \in NumericSources /\ call.other.data_type = "Bool")
               => call.result
        /\ (call.self.data_type = "Bool" /\ call.other.data_type \in NumericSources)
               => ~call.result

----------------------------------------------------------------------------
(* Properties of the type-name normalizer *)

\* C19: normalizing the result of normalize_type_name gives the same string again,
\* for every descriptor over the tokenizer's alphabet, malformed ones included.
NormalizeIsIdempotent ==
    call.op = "normalize_type_name" => call.twice = call.once

Wildcard == TypeExpression(<<"a", "n", "y">>, <<>>)

\* C20: the canonical form of a descriptor does not depend on the letter case of its
\* identifiers, on whitespace between its tokens, or on the order of the named
\* arguments of any of its argument lists; descriptors that differ in an identifier
\* or in the order of positional arguments have different canonical forms and are
\* not compatible, unless one of them is a wildcard.
CanonicalFormIgnoresFormatting ==
    call.op = "are_type_names_compatible" =>
        /\ call.lhs = call.rhs =>
               (call.lhs_normalized = call.rhs_normalized /\ call.compatible)
        /\ call.lhs # call.rhs =>
               /\ call.lhs_normalized # call.rhs_normalized
               /\ Wildcard \notin {call.lhs, call.rhs} => ~call.compatible

\* a nested descriptor written in upper case, spaced out and with its named
\* arguments reversed has the canonical form of its plain writing
CanonicalFormIgnoresFormattingWitness ==
    /\ call.op = "are_type_names_compatible"
    /\ call.lhs \in NestedGenerics
    /\ call.lhs = call.rhs
    /\ call.style = [upper |-> TRUE, spaced |-> TRUE, reversed |-> TRUE]
    /\ call.lhs_name # call.rhs_name
    /\ call.lhs_normalized = call.rhs_normalized

----------------------------------------------------------------------------
(* SpecTypeName: a port of any data type is constructed and set_type_name    *)
(* is called on it any number of times; call holds the port before the call, *)
(* the argument, whether the call threw and the port after it.               *)

TypeNameArgs ==
    {<<>>, <<" ">>, <<"*">>, <<" ", "*", " ">>,
     <<"v", "o", "i", "d">>, <<"V", "o", "i", "d">>, <<"a", "u", "t", "o">>,
     <<"a", "n", "y">>, <<"<", ">">>, <<"i", "n", "t">>, <<"I", "n", "t", " ">>,
     <<"a", "<", "*", ">">>}

ConstructPort ==
    /\ call = NoCall
    /\ \E data_type \in DataTypes :
           call' = [op |-> "Port", port |-> Port(1, "Input", data_type, "value")]
    /\ UNCHANGED <<graph_vars, last, factory_vars>>

SetTypeName ==
    /\ call.op \in {"Port", "set_type_name"}
    /\ \E type_name \in TypeNameArgs :
           LET outcome == set_type_name(call.port, type_name)
           IN call' = [op |-> "set_type_name", before |-> call.port,
                       type_name |-> type_name,
                       threw |-> outcome.threw, port |-> outcome.port]
    /\ UNCHANGED <<graph_vars, last, factory_vars>>

NextTypeName == ConstructPort \/ SetTypeName

SpecTypeName == Init /\ [][NextTypeName]_vars

----------------------------------------------------------------------------
(* Properties of Port::set_type_name *)

ContainerKinds == {"Array", "Vector", "Map", "Set"}

NominalKinds == {"Struct", "Class", "Enum"}

WildcardKinds == {"Pointer", "Reference", "Template"}

\* the wildcard markers a caller can supply: empty, *, void, auto, any
\* (any letter case, surrounded by any whitespace)
IsWildcardMarker(type_name) == is_generic_type_name(to_lower_ascii(trim(type_name)))

\* C21: set_type_name fails on a port whose kind carries no type name and, on a
\* container or nominal port, for a wildcard marker; a failing call leaves the
\* stored type name unchanged; a successful call on a container or nominal
\* port leaves a concrete type name stored (never empty, *, void, auto or
\* any); Pointer, Reference and Template ports accept the wildcard.
SetTypeNameRejectsWildcards ==
    call.op = "set_type_name" =>
        LET kind == call.before.data_type IN
        /\ ~requires_type_name(kind) => call.threw
        /\ (kind \in ContainerKinds \cup NominalKinds /\ IsWildcardMarker(call.type_name))
               => call.threw
        /\ call.threw => call.port.type_name = call.before.type_name
        /\ (kind \in ContainerKinds \cup NominalKinds /\ ~call.threw)
               => ~is_generic_type_name(call.port.type_name)
        /\ (kind \in WildcardKinds /\ IsWildcardMarker(call.type_name)) => ~call.threw

----------------------------------------------------------------------------
(* SpecGenerate: nodes created by one NodeFactory (Start, PrintString, End,  *)
(* two Add nodes, a ForLoop, an IntLiteral and a second PrintString, ids and *)
(* port ids in creation order) are added to a graph and connected, each list *)
(* taken in order with any elements left out; generate is then called once   *)
(* and call holds what it returns.                                           *)

MaxGenConns == 5

GeneratorNodes ==
    <<create_with_id(1, "Start", "Start #1", 1),
      create_with_id(2, "PrintString", "PrintString #2", 2),
      create_with_id(3, "End", "End #3", 5),
      create_with_id(4, "Add", "Add #4", 6),
      create_with_id(5, "Add", "Add #5", 9),
      create_with_id(6, "ForLoop", "ForLoop #6", 12),
      create_with_id(7, "IntLiteral", "IntLiteral #7", 18),
      create_with_id(8, "PrintString", "PrintString #8", 19)>>

\* Start -> PrintString -> End, Start -> ForLoop, loop_body -> PrintString,
\* completed -> End, PrintString -> ForLoop; then the data links
\* Add #4 -> Add #5.a, Add #5 -> Add #4.a, Add #4 -> first_index,
\* index -> Add #4.a, index -> PrintString.value, Add #4 -> PrintString.value,
\* IntLiteral -> Add #4.a, IntLiteral -> Add #4.b, loop_body -> PrintString #8,
\* index -> PrintString #8.value
GeneratorLinks ==
    <<<<1, 1, 2, 2>>, <<2, 3, 3, 5>>, <<1, 1, 6, 12>>, <<6, 15, 2, 2>>,
      <<6, 17, 3, 5>>, <<2, 3, 6, 12>>,
      <<4, 8, 5, 9>>, <<5, 11, 4, 6>>, <<4, 8, 6, 13>>, <<6, 16, 4, 6>>,
      <<6, 16, 2, 4>>, <<4, 8, 2, 4>>,
      <<7, 18, 4, 6>>, <<7, 18, 4, 7>>, <<6, 15, 8, 19>>, <<6, 16, 8, 21>>>>

LinkOfConnection(connection) ==
    <<connection.from_node, connection.from_port, connection.to_node, connection.to_port>>

AddGeneratorNode ==
    /\ call = NoCall
    /\ \E i \in 1..Len(GeneratorNodes) :
           /\ \A j \in 1..Len(nodes_) : nodes_[j].id < GeneratorNodes[i].id
           /\ add_node(GeneratorNodes[i])
    /\ UNCHANGED <<call, factory_vars>>

ConnectGenerator ==
    /\ call = NoCall
    /\ Len(connections_) < MaxGenConns
    /\ \E i \in 1..Len(GeneratorLinks) :
           LET link == GeneratorLinks[i] IN
           /\ \A j \in 1..Len(connections_) :
                  \E k \in 1..(i - 1) : GeneratorLinks[k] = LinkOfConnection(connections_[j])
           /\ connect_code(link[1], link[2], link[3], link[4]) = OK
           /\ connect(link[1], link[2], link[3], link[4])
    /\ UNCHANGED <<call, factory_vars>>

Generate ==
    /\ call = NoCall
    /\ call' = [op |-> "generate", result |-> generate]
    /\ UNCHANGED <<graph_vars, last, factory_vars>>

NextGenerate == AddGeneratorNode \/ ConnectGenerator \/ Generate

SpecGenerate == Init /\ [][NextGenerate]_vars

----------------------------------------------------------------------------
(* SpecSequence: a Start node, a factory Sequence node, a Sequence node whose *)
(* outputs were added as "Then 1" before "Then 0", and two SetVariable nodes  *)
(* that assign x and y are added in order (any left out) and connected in     *)
(* any order; generate is then called once.                                   *)

MaxSequenceConns == 3

SequenceNodes ==
    <<create_with_id(1, "Start", "Start #1", 1),
      create_with_id(2, "Sequence", "Sequence #2", 2),
      Node(3, "Sequence", "Sequence #3",
           <<Port(5, "Input", "Execution", "in_exec"),
             Port(6, "Output", "Execution", "Then 1"),
             Port(7, "Output", "Execution", "Then 0")>>),
      set_property(create_with_id(4, "SetVariable", "SetVariable #4", 8),
                   "variable_name", "x"),
      set_property(create_with_id(5, "SetVariable", "SetVariable #5", 11),
                   "variable_name", "y")>>

\* Start to either Sequence node, and each output of a Sequence node to
\* either SetVariable node
SequenceLinks ==
    {<<1, 1, 2, 2>>, <<1, 1, 3, 5>>}
        \cup {<<2, port, target[1], target[2]>> :
                  port \in {3, 4}, target \in {<<4, 8>>, <<5, 11>>}}
        \cup {<<3, port, target[1], target[2]>> :
                  port \in {6, 7}, target \in {<<4, 8>>, <<5, 11>>}}

AddSequenceNode ==
    /\ call = NoCall
    /\ \E i \in 1..Len(SequenceNodes) :
           /\ \A j \in 1..Len(nodes_) : nodes_[j].id < SequenceNodes[i].id
           /\ add_node(SequenceNodes[i])
    /\ UNCHANGED <<call, factory_vars>>

ConnectSequence ==
    /\ call = NoCall
    /\ Len(connections_) < MaxSequenceConns
    /\ \E link \in SequenceLinks :
           /\ connect_code(link[1], link[2], link[3], link[4]) = OK
           /\ connect(link[1], link[2], link[3], link[4])
    /\ UNCHANGED <<call, factory_vars>>

GenerateSequence ==
    /\ call = NoCall
    /\ call' = [op |-> "generate", result |-> generate]
    /\ UNCHANGED <<graph_vars, last, factory_vars>>

NextSequence == AddSequenceNode \/ ConnectSequence \/ GenerateSequence

SpecSequence == Init /\ [][NextSequence]_vars

----------------------------------------------------------------------------
(* Properties of the Sequence branch of the generator *)

\* the Sequence node the flow from Start enters, when it enters one
EnteredSequence ==
    get_connected_node(get_exec_output_ports(find_start_node)[1])

SequenceEntered ==
    /\ find_start_node # nullptr
    /\ EnteredSequence # nullptr
    /\ EnteredSequence.type = "Sequence"

\* the assignments of the SetVariable nodes connected to the named output
AssignmentsOf(node, name) ==
    {"    " \o get_node(connections_[i].to_node).properties["variable_name"]
            \o " = \"(unconnected)\";\n" :
         i \in {k \in 1..Len(connections_) :
                    /\ connections_[k].from_node = node.id
                    /\ connections_[k].from_port = find_port_by_name(node, name).id}}

\* C23: the statements generated from the Execution outputs of a Sequence
\* node appear in ascending order of the outputs' names: every statement of
\* "Then 0" comes before every statement of "Then 1", whatever the order in
\* which the connections were created and are stored.
SequenceOrdersBranchesByName ==
    (call.op = "generate" /\ SequenceEntered) =>
        LET body == call.result.builder.main_body
            first == AssignmentsOf(EnteredSequence, "Then 0")
            second == AssignmentsOf(EnteredSequence, "Then 1")
        IN /\ call.result.has_value
           /\ \E split \in 0..Len(body) :
                  /\ \A i \in 1..split : body[i] \in first
                  /\ \A i \in (split + 1)..Len(body) : body[i] \in second
                  /\ (split > 0) = (first # {})
                  /\ (split < Len(body)) = (second # {})

\* "Then 1" was connected before "Then 0", to different nodes, and both
\* assignments were generated
SequenceOrdersBranchesByNameWitness ==
    /\ call.op = "generate"
    /\ SequenceEntered
    /\ Len(connections_) = 3
    /\ connections_[2].from_port = find_port_by_name(EnteredSequence, "Then 1").id
    /\ connections_[3].from_port = find_port_by_name(EnteredSequence, "Then 0").id
    /\ connections_[2].to_node # connections_[3].to_node
    /\ Len(call.result.builder.main_body) = 2

----------------------------------------------------------------------------
(* Properties of the code generator *)

StoredLinks == [i \in 1..Len(connections_) |-> LinkOfConnection(connections_[i])]

StoredNodeIds == [i \in 1..Len(nodes_) |-> nodes_[i].id]

\* the print statements of the generated body
PrintStatements(builder) ==
    SelectSeq(builder.main_body,
              LAMBDA text : contains_text(text, "std::cout << "))

PrintStatementOf(operand) == "    std::cout << " \o operand \o " << std::endl;\n"

EmptyStringLiterals == {"std::string(\"\")", "std::string_view(\"\")", "\"\""}

\* C22: for the graph Start -> PrintString -> End of factory nodes with the
\* data input of PrintString unconnected, validate succeeds and generate emits
\* one print statement whose operand is an empty-string literal, the default of
\* the string-like input, and not the unknown-type placeholder.
UnconnectedPrintUsesStringDefault ==
    (/\ call.op = "generate"
     /\ StoredNodeIds = <<1, 2, 3>>
     /\ StoredLinks = <<<<1, 1, 2, 2>>, <<2, 3, 3, 5>>>>)
        => /\ validate.is_valid
           /\ call.result.has_value
           /\ Len(PrintStatements(call.result.builder)) = 1
           /\ \E operand \in EmptyStringLiterals :
                  PrintStatements(call.result.builder)[1] = PrintStatementOf(operand)

HasStartNode == \E i \in 1..Len(nodes_) : nodes_[i].type = "Start"

\* C24: generate has exactly one failure outcome: it returns the error
\* "Graph must have a Start node." if and only if the graph contains no Start
\* node, and for every graph with a Start node it returns source text.
GenerateFailsOnlyWithoutStart ==
    call.op = "generate" =>
        /\ call.result.terminated
        /\ ~HasStartNode =>
               ~call.result.has_value
                   /\ call.result.error = "Graph must have a Start node."
        /\ HasStartNode => call.result.has_value

\* C25: generate terminates on every graph built through the public API,
\* graphs with a cycle of Execution connections and graphs with a cycle of
\* Data connections included: the nesting of the two traversals stays bounded
\* and the placeholder comment is emitted instead of recursing further.
GenerateTerminates == call.op = "generate" => call.result.terminated

LiteralDeclarations(builder, node_id) ==
    SelectSeq(builder.preamble,
              LAMBDA text : contains_text(text, " var_" \o ToString(node_id) \o " = "))

\* C26: within one generate call the expression of each source output port is
\* computed at most once: a literal node whose output fans out contributes
\* exactly one declaration to the preamble, and every input connected to the
\* same source port receives the same expression string.
ExpressionsAreMemoizedPerSourcePort ==
    (call.op = "generate" /\ call.result.terminated) =>
        LET builder == call.result.builder IN
        /\ \A i, j \in 1..Len(builder.returned) :
               builder.returned[i].source = builder.returned[j].source
                   => builder.returned[i].expression = builder.returned[j].expression
        /\ \A i \in 1..Len(nodes_) :
               nodes_[i].type = "IntLiteral" =>
                   Len(LiteralDeclarations(builder, nodes_[i].id))
                       = (IF \E k \in 1..Len(builder.returned) :
                                 builder.returned[k].source = nodes_[i].ports[1].id
                          THEN 1 ELSE 0)

----------------------------------------------------------------------------
(* SpecFactory: two threads call NodeFactory::create and                     *)
(* NodeFactory::synchronize_id_counters, each call taken one atomic          *)
(* operation at a time, in any interleaving.                                 *)

MaxCreates == 2

MaxSynchronizes == 2

\* the node types created: one port and three ports
CreatedTypes == {"Start", "Sequence"}

\* (max_node_id, max_port_id) as a restored graph passes them
SynchronizeArgs == {<<2, 4>>, <<FactoryMaxId - 1, 2>>, <<FactoryMaxId, FactoryMaxId>>}

IssuedBy(op) == SelectSeq(issued, LAMBDA event : event.op = op)

CreatesStarted ==
    Len(IssuedBy("generate_node_id"))
        + Cardinality({t \in Threads : threads[t].pc = "generate_node_id"})

SynchronizesStarted ==
    Len(IssuedBy("synchronize_id_counters"))
        + Cardinality({t \in Threads : threads[t].pc \in {"load", "while"}})

\* NodeFactory::create is entered
Create(t) ==
    /\ threads[t].pc = "idle"
    /\ CreatesStarted < MaxCreates
    /\ \E type \in CreatedTypes :
           threads' = [threads EXCEPT ![t].pc = "generate_node_id",
                                      ![t].ports_left = Len(configure_ports(type, 1))]
    /\ UNCHANGED <<graph_vars, last, call, next_node_id_, next_port_id_, issued>>

\* generate_node_id: the fetch_add of create
GenerateNodeId(t) ==
    /\ threads[t].pc = "generate_node_id"
    /\ next_node_id_' = fetch_add(next_node_id_).atomic
    /\ issued' = Append(issued, [op |-> "generate_node_id", thread |-> t,
                                 id |-> fetch_add(next_node_id_).value])
    /\ threads' = [threads EXCEPT ![t] =
                       LET thread == [@ EXCEPT !.seen_node = Len(next_node_id_) + 1] IN
                       IF thread.ports_left > 0
                       THEN [thread EXCEPT !.pc = "generate_port_id"]
                       ELSE returned(thread)]
    /\ UNCHANGED <<graph_vars, last, call, next_port_id_>>

\* generate_port_id: one fetch_add of configure_ports
GeneratePortId(t) ==
    /\ threads[t].pc = "generate_port_id"
    /\ next_port_id_' = fetch_add(next_port_id_).atomic
    /\ issued' = Append(issued, [op |-> "generate_port_id", thread |-> t,
                                 id |-> fetch_add(next_port_id_).value])
    /\ threads' = [threads EXCEPT ![t] =
                       LET thread == [@ EXCEPT !.seen_port = Len(next_port_id_) + 1] IN
                       IF thread.ports_left > 1
                       THEN [thread EXCEPT !.ports_left = @ - 1]
                       ELSE returned(thread)]
    /\ UNCHANGED <<graph_vars, last, call, next_node_id_>>

\* synchronize_id_counters is entered: sync_atomic(next_node_id_, ...) comes first
Synchronize(t) ==
    /\ threads[t].pc = "idle"
    /\ SynchronizesStarted < MaxSynchronizes
    /\ \E args \in SynchronizeArgs :
           threads' = [threads EXCEPT ![t].pc = "load", ![t].atomic = "node",
                                      ![t].max_node_id = args[1],
                                      ![t].max_port_id = args[2]]
    /\ UNCHANGED <<graph_vars, last, call, next_node_id_, next_port_id_, issued>>

\* sync_atomic: current = atomic.load(relaxed)
SyncLoad(t) ==
    /\ threads[t].pc = "load"
    /\ \E position \in readable(threads[t]) :
           threads' = [threads EXCEPT ![t] =
                           [saw(@, position) EXCEPT
                                !.pc = "while",
                                !.current = atomic_of(threads[t])[position]]]
    /\ UNCHANGED <<graph_vars, last, call, next_node_id_, next_port_id_, issued>>

\* what follows the loop of sync_atomic: the second sync_atomic call, or the return
sync_atomic_returns(t, thread) ==
    IF thread.atomic = "node"
    THEN /\ threads' = [threads EXCEPT ![t] =
                            [thread EXCEPT !.pc = "load", !.atomic = "port"]]
         /\ UNCHANGED issued
    ELSE /\ threads' = [threads EXCEPT ![t] = returned(thread)]
         /\ issued' = Append(issued,
                             [op |-> "synchronize_id_counters", thread |-> t,
                              max_node_id |-> thread.max_node_id,
                              max_port_id |-> thread.max_port_id])

\* sync_atomic: the loop ends because current < new_value is false
SyncPass(t) ==
    /\ threads[t].pc = "while"
    /\ ~(threads[t].current < new_value_of(threads[t]))
    /\ sync_atomic_returns(t, threads[t])
    /\ UNCHANGED <<graph_vars, last, call, next_node_id_, next_port_id_>>

\* sync_atomic: compare_exchange_weak succeeds and the loop ends
SyncExchange(t) ==
    /\ threads[t].pc = "while"
    /\ threads[t].current < new_value_of(threads[t])
    /\ latest(atomic_of(threads[t])) = threads[t].current
    /\ IF threads[t].atomic = "node"
       THEN /\ next_node_id_' = Append(next_node_id_, new_value_of(threads[t]))
            /\ UNCHANGED next_port_id_
       ELSE /\ next_port_id_' = Append(next_port_id_, new_value_of(threads[t]))
            /\ UNCHANGED next_node_id_
    /\ sync_atomic_returns(t, saw(threads[t], Len(atomic_of(threads[t])) + 1))
    /\ UNCHANGED <<graph_vars, last, call>>

\* sync_atomic: compare_exchange_weak fails, as it may at any time, and leaves
\* a value of the atomic object in current
SyncRetry(t) ==
    /\ threads[t].pc = "while"
    /\ threads[t].current < new_value_of(threads[t])
    /\ \E position \in readable(threads[t]) :
           threads' = [threads EXCEPT ![t] =
                           [saw(@, position) EXCEPT
                                !.current = atomic_of(threads[t])[position]]]
    /\ UNCHANGED <<graph_vars, last, call, next_node_id_, next_port_id_, issued>>

NextFactory ==
    \E t \in Threads :
        \/ Create(t)
        \/ GenerateNodeId(t)
        \/ GeneratePortId(t)
        \/ Synchronize(t)
        \/ SyncLoad(t)
        \/ SyncPass(t)
        \/ SyncExchange(t)
        \/ SyncRetry(t)

SpecFactory == Init /\ [][NextFactory]_vars

----------------------------------------------------------------------------
(* Properties of the NodeFactory id counters *)

NeverDecreases(atomic) ==
    \A i \in 1..(Len(atomic) - 1) : atomic[i] <= atomic[i + 1]

\* C27: under every interleaving of concurrent create and
\* synchronize_id_counters calls no two generation calls obtain the same node
\* id or the same port id, the counters never decrease, and once
\* synchronize_id_counters(max_node, max_port) has returned every id generated
\* afterwards is greater than the given maximum.
FactoryIdsUniqueAndAboveSynchronized ==
    /\ \A i, j \in 1..Len(issued) :
           (/\ i # j
            /\ issued[i].op = issued[j].op
            /\ issued[i].op # "synchronize_id_counters")
               => issued[i].id # issued[j].id
    /\ NeverDecreases(next_node_id_)
    /\ NeverDecreases(next_port_id_)
    /\ \A i, j \in 1..Len(issued) :
           (i < j /\ issued[i].op = "synchronize_id_counters") =>
               /\ issued[j].op = "generate_node_id"
                      => issued[j].id > issued[i].max_node_id
               /\ issued[j].op = "generate_port_id"
                      => issued[j].id > issued[i].max_port_id

----------------------------------------------------------------------------
(* GraphSerializer (GraphSerializer.cpp): a document is the JSON value of    *)
(* to_json, its "nodes" and "connections" arrays; array positions are        *)
(* counted from 0 as nlohmann::json counts them.  The words that precede the *)
(* position in the messages of from_json are left out.                       *)

kErrorInvalidDocument == 600
kErrorConnection == 605

port_to_json(port) ==
    [id |-> port.id, name |-> port.name, direction |-> port.direction,
     dataType |-> port.data_type]

node_to_json(node) ==
    [id |-> node.id, type |-> node.type, name |-> node.name,
     ports |-> [i \in 1..Len(node.ports) |-> port_to_json(node.ports[i])]]

connection_to_json(connection) ==
    [id |-> connection.id, type |-> connection.type,
     from |-> [nodeId |-> connection.from_node, portId |-> connection.from_port],
     to |-> [nodeId |-> connection.to_node, portId |-> connection.to_port]]

to_json ==
    [nodes |-> [i \in 1..Len(nodes_) |-> node_to_json(nodes_[i])],
     connections |-> [i \in 1..Len(connections_) |->
                          connection_to_json(connections_[i])]]

\* the Graph that from_json fills: its nodes, its connections and its counter
EmptyGraph == [nodes |-> <<>>, connections |-> <<>>, next_connection_id |-> 1]

node_of(graph, id) ==
    IF \E i \in 1..Len(graph.nodes) : graph.nodes[i].id = id
    THEN graph.nodes[CHOOSE i \in 1..Len(graph.nodes) : graph.nodes[i].id = id]
    ELSE nullptr

node_from_json(node_json) ==
    Node(node_json.id, node_json.type, node_json.name,
         [i \in 1..Len(node_json.ports) |->
              Port(node_json.ports[i].id, node_json.ports[i].direction,
                   node_json.ports[i].dataType, node_json.ports[i].name)])

connection_from_json(conn_json) ==
    [id |-> conn_json.id, from_node |-> conn_json.from.nodeId,
     from_port |-> conn_json.from.portId, to_node |-> conn_json.to.nodeId,
     to_port |-> conn_json.to.portId, type |-> conn_json.type]

does_not_exist(node) == Error(ErrNodeNotFound, "Node " \o ToString(node) \o " does not exist")

\* Graph::validate_connection on the graph being filled: the Error, of code OK
\* for Result<void>()
validate_restored(graph, connection) ==
    LET from_node_ptr == node_of(graph, connection.from_node)
        to_node_ptr == node_of(graph, connection.to_node)
    IN IF from_node_ptr = nullptr THEN does_not_exist(connection.from_node)
       ELSE IF to_node_ptr = nullptr THEN does_not_exist(connection.to_node)
       ELSE IF find_port(from_node_ptr, connection.from_port) = nullptr
            THEN Error(ErrPortNotFound,
                       "Port " \o ToString(connection.from_port)
                           \o " does not exist on node " \o ToString(connection.from_node))
       ELSE IF find_port(to_node_ptr, connection.to_port) = nullptr
            THEN Error(ErrPortNotFound,
                       "Port " \o ToString(connection.to_port)
                           \o " does not exist on node " \o ToString(connection.to_node))
       ELSE IF ~can_connect_to(find_port(from_node_ptr, connection.from_port),
                               find_port(to_node_ptr, connection.to_port))
            THEN Error(ErrPortsIncompatible, "Ports are not compatible: ")
       ELSE IF connection.from_node = connection.to_node
            THEN Error(ErrSelfLoop, "Self-loops are not allowed")
       ELSE Error(OK, "")

failed(error) == [has_value |-> FALSE, error |-> error]

\* Graph::append_connection on the graph being filled, from the type check on
append_checked(graph, connection, expected_type) ==
    IF expected_type # connection.type
    THEN failed(Error(ErrConnectionTypeMismatch,
                      "Connection " \o ToString(connection.id)
                          \o " type mismatch: expected " \o expected_type
                          \o " but got " \o connection.type))
    ELSE [has_value |-> TRUE,
          value |-> [graph EXCEPT
                         !.connections = Append(@, connection),
                         !.next_connection_id =
                             seed_connection_counter(@, (connection.id + 1) % IdSpace)]]

\* Graph::append_connection on the graph being filled, from the result of
\* validate_connection on
append_validated(graph, connection, checked) ==
    IF checked.code # OK THEN failed(checked)
    ELSE append_checked(graph, connection,
                        connection_type_of(
                            find_port(node_of(graph, connection.from_node),
                                      connection.from_port)))

\* Graph::append_connection on the graph being filled
restore_connection(graph, connection) ==
    IF connection.id = 0
    THEN failed(Error(ErrZeroConnectionId, "Connection ID must be non-zero"))
    ELSE IF \E i \in 1..Len(graph.connections) :
                graph.connections[i].id = connection.id
         THEN failed(Error(ErrConnectionExists,
                           "Connection " \o ToString(connection.id)
                               \o " already exists"))
    ELSE append_validated(graph, connection, validate_restored(graph, connection))

\* the loop over document["nodes"], from position index on
RECURSIVE restore_nodes(_, _, _)
restore_nodes(nodes_json, index, graph) ==
    IF index >= Len(nodes_json) THEN [has_value |-> TRUE, value |-> graph]
    ELSE LET node == node_from_json(nodes_json[index + 1]) IN
         IF node_of(graph, node.id) # nullptr
         THEN [has_value |-> FALSE,
               error |-> Error(kErrorInvalidDocument,
                               "nodes[" \o ToString(index) \o "]")]
         ELSE restore_nodes(nodes_json, index + 1,
                            [graph EXCEPT !.nodes = Append(@, node)])

\* the loop over document["connections"], from position index on
RECURSIVE restore_connections(_, _, _)

\* the body of the loop after append_connection returned
restore_after(connections_json, index, append_result) ==
    IF ~append_result.has_value THEN append_result
    ELSE restore_connections(connections_json, index + 1, append_result.value)

restore_connections(connections_json, index, graph) ==
    IF index >= Len(connections_json) THEN [has_value |-> TRUE, value |-> graph]
    ELSE restore_after(connections_json, index,
                       restore_connection(graph,
                                          connection_from_json(
                                              connections_json[index + 1])))

\* from_json after the loop over document["nodes"]
restore_rest(document, restored) ==
    IF ~restored.has_value THEN restored
    ELSE restore_connections(document.connections, 0, restored.value)

from_json(document) ==
    restore_rest(document, restore_nodes(document.nodes, 0, EmptyGraph))

----------------------------------------------------------------------------
(* SpecLoad: a graph is built, written with to_json, one "nodeId" of one of  *)
(* its connections is overwritten, as the serializer tests do, and the       *)
(* document is read with from_json; call holds the document and the result.  *)

ConnectFirst == call = NoCall /\ Connect

Endpoints == {"from", "to"}

overwrite_node_id(document, position, endpoint, node_id) ==
    [document EXCEPT !.connections[position + 1][endpoint].nodeId = node_id]

FromJson ==
    /\ call = NoCall
    /\ \E position \in 0..(Len(connections_) - 1), endpoint \in Endpoints,
          node_id \in NodeArgs :
           LET document == overwrite_node_id(to_json, position, endpoint, node_id) IN
           call' = [op |-> "from_json", document |-> document,
                    result |-> from_json(document)]
    /\ UNCHANGED <<graph_vars, last, factory_vars>>

NextLoad == AddNodeFirst \/ ConnectFirst \/ FromJson

SpecLoad == Init /\ [][NextLoad]_vars

----------------------------------------------------------------------------
(* Properties of the serializer *)

DocumentNodeIds(document) == {document.nodes[i].id : i \in 1..Len(document.nodes)}

\* the positions of the connections of the document that name a node the
\* document does not hold
BrokenConnections(document) ==
    {position \in 0..(Len(document.connections) - 1) :
         LET conn_json == document.connections[position + 1] IN
         \/ conn_json.from.nodeId \notin DocumentNodeIds(document)
         \/ conn_json.to.nodeId \notin DocumentNodeIds(document)}

\* C28: loading a document in which a connection references a node id that is
\* not among the document's nodes returns no Graph but an error with the
\* serializer's invalid-connection code 605 whose message names the position of
\* the offending connection, connections[i].
FromJsonRejectsBrokenNodeId ==
    (call.op = "from_json" /\ BrokenConnections(call.document) # {})
        => /\ ~call.result.has_value
           /\ call.result.error.code = kErrorConnection
           /\ \E position \in BrokenConnections(call.document) :
                  contains_text(call.result.error.message,
                                "connections[" \o ToString(position) \o "]")

----------------------------------------------------------------------------
(* SpecCycles: three nodes that each have an execution input, an execution   *)
(* output, a data input and a data output are added in any order and joined  *)
(* by Execution and Data connections in any order.                           *)

MaxCycleConns == 3

CycleNode(id) ==
    Node(id, "Function", "f",
         <<Port(4 * id - 3, "Input", "Execution", "exec_in"),
           Port(4 * id - 2, "Output", "Execution", "exec_out"),
           Port(4 * id - 1, "Input", "Int32", "in"),
           Port(4 * id, "Output", "Int32", "out")>>)

CycleNodes == {CycleNode(id) : id \in 1..3}

\* exec_out -> exec_in and out -> in between every two of the nodes
CycleLinks ==
    {<<a, 4 * a - 2, b, 4 * b - 3>> : a, b \in 1..3}
        \cup {<<a, 4 * a, b, 4 * b - 1>> : a, b \in 1..3}

AddCycleNode ==
    \E node \in CycleNodes : add_node(node) /\ UNCHANGED <<call, factory_vars>>

ConnectCycle ==
    /\ Len(connections_) < MaxCycleConns
    /\ \E link \in CycleLinks :
           /\ link[1] # link[3]
           /\ connect(link[1], link[2], link[3], link[4])
           /\ UNCHANGED <<call, factory_vars>>

NextCycles == AddCycleNode \/ ConnectCycle

SpecCycles == Init /\ [][NextCycles]_vars

----------------------------------------------------------------------------
(* SpecNodes: add_node, remove_node and connect are called in any order on   *)
(* one Graph, add_node with ids the graph already holds included.  call      *)
(* holds the last call with what it returned, get_nodes() as it was before   *)
(* the call, the number of calls made, and for every node of the graph the   *)
(* number of the add_node call that added it.                                *)

MaxNodeCalls == 5

NodeCalls == IF call = NoCall THEN 0 ELSE call.calls

AddedAt == IF call = NoCall THEN <<>> ELSE call.added

AddNodeCall ==
    /\ NodeCalls < MaxNodeCalls
    /\ \E node \in NodePool :
           /\ add_node(node)
           /\ call' = [op |-> "add_node", id |-> node.id,
                       returned |-> add_node_returns(node),
                       before |-> get_nodes, calls |-> NodeCalls + 1,
                       added |-> IF add_node_returns(node) = 0 THEN AddedAt
                                 ELSE map_put(AddedAt, node.id, NodeCalls + 1)]
    /\ UNCHANGED factory_vars

RemoveNodeCall ==
    /\ NodeCalls < MaxNodeCalls
    /\ \E id \in NodeArgs :
           /\ remove_node(id)
           /\ call' = [op |-> "remove_node", id |-> id,
                       returned |-> remove_node_code(id),
                       before |-> get_nodes, calls |-> NodeCalls + 1,
                       added |-> IF remove_node_code(id) # OK THEN AddedAt
                                 ELSE map_erase(AddedAt, id)]
    /\ UNCHANGED factory_vars

ConnectNodes ==
    /\ NodeCalls < MaxNodeCalls
    /\ Len(connections_) < MaxConns
    /\ \E link \in Links :
           /\ connect(link[1], link[2], link[3], link[4])
           /\ call' = [op |-> "connect", id |-> link[1],
                       returned |-> connect_code(link[1], link[2], link[3], link[4]),
                       before |-> get_nodes, calls |-> NodeCalls + 1,
                       added |-> AddedAt]
    /\ UNCHANGED factory_vars

NextNodes == AddNodeCall \/ RemoveNodeCall \/ ConnectNodes

SpecNodes == Init /\ [][NextNodes]_vars

\* C30: get_nodes() holds exactly the nodes that were added and not removed
\* since, in the order of the add_node calls that added them, and an add_node
\* that is rejected for a duplicate id leaves get_nodes() and node_count() as
\* they were.
GetNodesKeepsInsertionOrder ==
    /\ {get_nodes[i].id : i \in 1..Len(get_nodes)} = DOMAIN AddedAt
    /\ \A i, j \in 1..Len(get_nodes) :
           i < j => AddedAt[get_nodes[i].id] < AddedAt[get_nodes[j].id]
    /\ (call.op = "add_node" /\ call.returned = 0)
           => /\ get_nodes = call.before
              /\ node_count = Len(call.before)

\* the first of three nodes was removed and the two that remain are not in
\* the order of their ids
GetNodesKeepsInsertionOrderWitness ==
    /\ call.op = "remove_node"
    /\ call.returned = OK
    /\ Len(call.before) = 3
    /\ call.before[1].id = call.id
    /\ Len(get_nodes) = 2
    /\ get_nodes[1].id > get_nodes[2].id

----------------------------------------------------------------------------
(* Graph::get_statistics (Graph.cpp).  depths is the std::unordered_map of   *)
(* the search, queue its std::queue.                                         *)

max_of(a, b) == IF a < b THEN b ELSE a

RECURSIVE depth_search(_, _, _)
RECURSIVE depth_search_outgoing(_, _, _, _, _, _)

\* the while loop: the front of the queue is popped and its outgoing
\* connections are walked
depth_search(queue, depths, max_depth) ==
    IF queue = <<>> THEN max_depth
    ELSE depth_search_outgoing(get_connections_from(Head(queue)), 1,
                               depths[Head(queue)], Tail(queue), depths,
                               max_of(max_depth, depths[Head(queue)]))

\* the for loop over outgoing, from position k
depth_search_outgoing(outgoing, k, current_depth, queue, depths, max_depth) ==
    IF k > Len(outgoing) THEN depth_search(queue, depths, max_depth)
    ELSE LET conn == get_connection(outgoing[k]) IN
         IF conn = nullptr
         THEN depth_search_outgoing(outgoing, k + 1, current_depth, queue, depths,
                                    max_depth)
         ELSE IF conn.type = "Execution" /\ conn.to_node \notin DOMAIN depths
         THEN depth_search_outgoing(outgoing, k + 1, current_depth,
                                    Append(queue, conn.to_node),
                                    map_put(depths, conn.to_node, current_depth + 1),
                                    max_depth)
         ELSE depth_search_outgoing(outgoing, k + 1, current_depth, queue, depths,
                                    max_depth)

\* max_depth once the Start node is looked up
max_depth_from(start) ==
    IF start = nullptr THEN 0
    ELSE depth_search(<<start.id>>, map_put(<<>>, start.id, 0), 0)

get_statistics ==
    [total_nodes |-> Len(nodes_),
     total_connections |-> Len(connections_),
     execution_connections |->
         Len(SelectSeq(connections_, LAMBDA conn : conn.type = "Execution")),
     data_connections |->
         Len(SelectSeq(connections_, LAMBDA conn : conn.type # "Execution")),
     max_depth |-> max_depth_from(find_start_node)]

----------------------------------------------------------------------------
(* SpecStatistics: a Start node, two Function nodes and an End node are      *)
(* added in any order and joined by Execution connections and one Data       *)
(* connection, and get_statistics() is called; call holds its result for the *)
(* current state.                                                            *)

MaxStatisticsConns == 3

StatisticsNodes ==
    {Node(1, "Start", "start", <<Port(1, "Output", "Execution", "start")>>),
     Node(2, "Function", "f", <<Port(2, "Input", "Execution", "exec_in"),
                                Port(3, "Output", "Execution", "exec_out"),
                                Port(7, "Output", "Int32", "value")>>),
     Node(3, "Function", "g", <<Port(4, "Input", "Execution", "exec_in"),
                                Port(5, "Output", "Execution", "exec_out"),
                                Port(8, "Input", "Int32", "value")>>),
     Node(4, "End", "end", <<Port(6, "Input", "Execution", "end")>>)}

\* start -> f, start -> g, start -> end, f -> g, g -> f, f -> end, g -> end and the
\* Data connection f -> g
StatisticsLinks ==
    {<<1, 1, 2, 2>>, <<1, 1, 3, 4>>, <<1, 1, 4, 6>>, <<2, 3, 3, 4>>, <<3, 5, 2, 2>>,
     <<2, 3, 4, 6>>, <<3, 5, 4, 6>>, <<2, 7, 3, 8>>}

AddStatisticsNode ==
    \E node \in StatisticsNodes :
        add_node(node) /\ call' = NoCall /\ UNCHANGED factory_vars

ConnectStatistics ==
    /\ Len(connections_) < MaxStatisticsConns
    /\ \E link \in StatisticsLinks :
           /\ connect(link[1], link[2], link[3], link[4])
           /\ call' = NoCall
           /\ UNCHANGED factory_vars

GetStatistics ==
    /\ call = NoCall
    /\ call' = [op |-> "get_statistics", result |-> get_statistics]
    /\ UNCHANGED <<graph_vars, last, factory_vars>>

NextStatistics == AddStatisticsNode \/ ConnectStatistics \/ GetStatistics

SpecStatistics == Init /\ [][NextStatistics]_vars

\* the number of edges of the longest path that leaves the node; the edges
\* have no cycle
RECURSIVE LongestPathFrom(_, _)
LongestPathFrom(node, edges) ==
    IF Successors(node, edges) = {} THEN 0
    ELSE LET lengths == {LongestPathFrom(next, edges) : next \in Successors(node, edges)}
         IN 1 + CHOOSE longest \in lengths : \A other \in lengths : other <= longest

\* C31: when the Execution connections form no cycle and the graph has a Start
\* node, get_statistics().max_depth is the number of Execution connections on
\* the longest execution path that starts at the Start node, and
\* execution_connections + data_connections = total_connections.
MaxDepthIsLongestExecutionPath ==
    (call.op = "get_statistics" /\ find_start_node # nullptr /\ Acyclic(ExecutionEdges))
        => /\ call.result.max_depth = LongestPathFrom(find_start_node.id, ExecutionEdges)
           /\ call.result.execution_connections + call.result.data_connections
                  = call.result.total_connections

----------------------------------------------------------------------------
(* Node port management with the stored has_execution_flow_ flag (Node.cpp)  *)

MaxNodePorts == 3

\* Node::Node: no ports, has_execution_flow_(false)
NodeObject == [ports |-> <<>>, has_execution_flow_ |-> FALSE]

\* Node::add_input_port: the flag is left as it was
node_add_input_port(node, port_id, data_type, name) ==
    [node EXCEPT !.ports = Append(@, Port(port_id, "Input", data_type, name))]

\* Node::add_output_port: the flag is left as it was
node_add_output_port(node, port_id, data_type, name) ==
    [node EXCEPT !.ports = Append(@, Port(port_id, "Output", data_type, name))]

\* Node::add_exec_input
node_add_exec_input(node, port_id) ==
    [ports |-> Append(node.ports, Port(port_id, "Input", "Execution", "exec_in")),
     has_execution_flow_ |-> TRUE]

\* Node::add_exec_output
node_add_exec_output(node, port_id) ==
    [ports |-> Append(node.ports, Port(port_id, "Output", "Execution", "exec_out")),
     has_execution_flow_ |-> TRUE]

\* Node::update_execution_flow_flag
update_execution_flow_flag(node) ==
    [node EXCEPT !.has_execution_flow_ =
         \E i \in 1..Len(node.ports) : is_execution(node.ports[i])]

\* Node::remove_port: an absent id is the error exit and changes nothing
node_remove_port(node, id) ==
    IF \A i \in 1..Len(node.ports) : node.ports[i].id # id THEN node
    ELSE update_execution_flow_flag(
             [node EXCEPT !.ports = SelectSeq(@, LAMBDA port : port.id # id)])

\* Node::append_port
append_port(node, port) ==
    [ports |-> Append(node.ports, port),
     has_execution_flow_ |-> node.has_execution_flow_ \/ is_execution(port)]

----------------------------------------------------------------------------
(* SpecNodePorts: a Node is constructed and up to MaxNodePorts ports are     *)
(* added to it through any of the five adding calls, with remove_port calls  *)
(* in between; call holds the node after the call and the next port id.      *)

NodePortTypes == {"Execution", "Int32", "Bool"}

NodePortOps ==
    {"Node", "add_input_port", "add_output_port", "add_exec_input",
     "add_exec_output", "append_port", "remove_port"}

ConstructNode ==
    /\ call = NoCall
    /\ call' = [op |-> "Node", node |-> NodeObject, next_port |-> 1]
    /\ UNCHANGED <<graph_vars, last, factory_vars>>

NodePortCall(op, node) ==
    /\ call' = [op |-> op, node |-> node, next_port |-> call.next_port + 1]
    /\ UNCHANGED <<graph_vars, last, factory_vars>>

CanAddPort == call.op \in NodePortOps /\ call.next_port <= MaxNodePorts

AddInputPort ==
    /\ CanAddPort
    /\ \E data_type \in NodePortTypes :
           NodePortCall("add_input_port",
                        node_add_input_port(call.node, call.next_port, data_type, "in"))

AddOutputPort ==
    /\ CanAddPort
    /\ \E data_type \in NodePortTypes :
           NodePortCall("add_output_port",
                        node_add_output_port(call.node, call.next_port, data_type, "out"))

AddExecInput ==
    /\ CanAddPort
    /\ NodePortCall("add_exec_input", node_add_exec_input(call.node, call.next_port))

AddExecOutput ==
    /\ CanAddPort
    /\ NodePortCall("add_exec_output", node_add_exec_output(call.node, call.next_port))

AppendPort ==
    /\ CanAddPort
    /\ \E direction \in {"Input", "Output"}, data_type \in NodePortTypes :
           NodePortCall("append_port",
                        append_port(call.node,
                                    Port(call.next_port, direction, data_type, "port")))

RemovePortOfNode ==
    /\ call.op \in NodePortOps
    /\ \E id \in 1..MaxNodePorts :
           call' = [op |-> "remove_port", node |-> node_remove_port(call.node, id),
                    next_port |-> call.next_port]
    /\ UNCHANGED <<graph_vars, last, factory_vars>>

NextNodePorts ==
    \/ ConstructNode
    \/ AddInputPort
    \/ AddOutputPort
    \/ AddExecInput
    \/ AddExecOutput
    \/ AppendPort
    \/ RemovePortOfNode

SpecNodePorts == Init /\ [][NextNodePorts]_vars

----------------------------------------------------------------------------
(* Properties of Node::has_execution_flow *)

owns_execution_port(node) == \E i \in 1..Len(node.ports) : node.ports[i].data_type = "Execution"

\* C32: after any sequence of add_input_port, add_output_port, add_exec_input,
\* add_exec_output, append_port and remove_port calls, has_execution_flow() is
\* true if and only if the node owns at least one port of kind Execution.
HasExecutionFlowIffExecutionPort ==
    call.op \in NodePortOps =>
        (call.node.has_execution_flow_ <=> owns_execution_port(call.node))

\* the half of C32 that the flag does keep: a node whose flag is set owns an
\* Execution port
HasExecutionFlowImpliesExecutionPort ==
    call.op \in NodePortOps =>
        (call.node.has_execution_flow_ => owns_execution_port(call.node))

----------------------------------------------------------------------------
(* SpecFrames: the mutators of one Graph, every call recorded with the error *)
(* code it returned (OK for success) and the graph as it was before the call *)

GraphState ==
    [nodes |-> nodes_, node_lookup |-> node_lookup_, connections |-> connections_,
     connection_lookup |-> connection_lookup_, adjacency_out |-> adjacency_out_,
     adjacency_in |-> adjacency_in_, next_connection_id |-> next_connection_id_]

\* what is kept of a call: the code, and for an error the graph it was made on
Returned(op, code) ==
    IF code = OK THEN [op |-> op, code |-> OK]
    ELSE [op |-> op, code |-> code, before |-> GraphState]

\* the endpoints offered to connect: ports of the pool's nodes, a port no node
\* has and a node that is never added
FramePorts == {<<1, 1>>, <<1, 2>>, <<1, 3>>, <<2, 4>>, <<1, 9>>, <<AbsentNode, 1>>}

MaxFrameConns == 2

FrameNodes == {node \in NodePool : node.id \in {1, 2}}

FrameLinks == {<<1, 2, 2, 4>>, <<1, 3, 2, 6>>}

\* the ids offered to disconnect and append_connection; 0 is the invalid id
FrameConnectionIds == {0, 1, 2, 3}

FrameOps == {"add_node", "remove_node", "connect", "disconnect", "append_connection"}

\* add_node's failure is the returned NodeId{0}
AddNodeFrame ==
    \E node \in FrameNodes :
        /\ add_node(node)
        /\ call' = Returned("add_node",
                            IF add_node_returns(node) = 0 THEN ErrNodeNotFound ELSE OK)
        /\ UNCHANGED factory_vars

RemoveNodeFrame ==
    \E id \in {1, 2, AbsentNode} :
        /\ remove_node(id)
        /\ call' = Returned("remove_node", remove_node_code(id))
        /\ UNCHANGED factory_vars

ConnectFrame ==
    /\ Len(connections_) < MaxFrameConns
    /\ \E from \in FramePorts, to \in FramePorts :
           /\ connect(from[1], from[2], to[1], to[2])
           /\ call' = Returned("connect", connect_code(from[1], from[2], to[1], to[2]))
           /\ UNCHANGED factory_vars

\* Graph::disconnect: the graph takes what the call leaves, on either exit
DisconnectFrame ==
    \E id \in FrameConnectionIds :
        LET done == disconnect(Containers, id) IN
        /\ connections_' = done.g.connections
        /\ connection_lookup_' = done.g.lookup
        /\ adjacency_out_' = done.g.out
        /\ adjacency_in_' = done.g.in
        /\ last' = IF done.code = OK THEN Called("disconnect", id) ELSE last
        /\ call' = Returned("disconnect", done.code)
        /\ UNCHANGED <<nodes_, node_lookup_, next_connection_id_, factory_vars>>

\* Graph::append_connection with the code it returns
append_returning(connection, code) ==
    /\ IF code # OK THEN UNCHANGED <<graph_vars, last>> ELSE append_stored(connection)
    /\ call' = Returned("append_connection", code)
    /\ UNCHANGED factory_vars

AppendConnectionFrame ==
    /\ Len(connections_) < MaxFrameConns
    /\ \E link \in FrameLinks, id \in FrameConnectionIds, type \in {"Execution", "Data"} :
           append_returning(Connection(id, link, type),
                            append_connection_code(Connection(id, link, type)))

NextFrames ==
    \/ AddNodeFrame
    \/ RemoveNodeFrame
    \/ ConnectFrame
    \/ DisconnectFrame
    \/ AppendConnectionFrame

SpecFrames == Init /\ [][NextFrames]_vars

----------------------------------------------------------------------------
(* Properties of the failing exits *)

\* C33: a mutator that fails (connect, append_connection, disconnect or
\* remove_node returning an error, add_node rejecting a duplicate id) leaves
\* the node set, the connection storage, the connection lookup, both adjacency
\* indices and the connection-id counter exactly as they were before the call.
FailingMutatorLeavesGraphUnchanged ==
    (call.op \in FrameOps /\ call.code # OK) => call.before = GraphState

\* a disconnect of an id that is not stored, on a graph that holds connections
FailingMutatorLeavesGraphUnchangedWitness ==
    /\ call.op = "disconnect"
    /\ call.code = ErrConnectionNotFound
    /\ connections_ # <<>>
    /\ call.before = GraphState

----------------------------------------------------------------------------
(* Properties of the connection lookup index *)

\* C34: the connection lookup mirrors the connection storage: its keys are
\* exactly the ids of the stored connections and the slot kept for a stored id
\* holds the connection with that id, also after a swap-and-pop of a connection
\* that is not the last one and after remove_node disconnected several.
LookupMirrorsStorage ==
    /\ DOMAIN connection_lookup_ = {connections_[i].id : i \in 1..Len(connections_)}
    /\ \A id \in DOMAIN connection_lookup_ :
           /\ connection_lookup_[id] \in 1..Len(connections_)
           /\ connections_[connection_lookup_[id]].id = id

----------------------------------------------------------------------------
(* Properties of the orientation of stored connections *)

\* the direction of a port of a node of the graph, "none" for an endpoint that
\* does not resolve
direction_of(node_id, port_id) ==
    IF get_node(node_id) = nullptr THEN "none"
    ELSE IF find_port(get_node(node_id), port_id) = nullptr THEN "none"
    ELSE find_port(get_node(node_id), port_id).direction

\* C35: every stored connection runs from a producing port to a consuming
\* port: its from_port has direction Output or InOut and its to_port has
\* direction Input or InOut.
ConnectionsRunFromOutputToInput ==
    \A i \in 1..Len(connections_) :
        /\ direction_of(connections_[i].from_node, connections_[i].from_port)
               \in {"Output", "InOut", "none"}
        /\ direction_of(connections_[i].to_node, connections_[i].to_port)
               \in {"Input", "InOut", "none"}

----------------------------------------------------------------------------
(* Properties of the endpoints of stored connections *)

\* C36: in every state reached through the public API, removing a port of a
\* graph-owned node through get_node_mut()->remove_port included, the from_node
\* and to_node of every stored connection are nodes of the graph and its
\* from_port and to_port are ports of those nodes.
NoDanglingEndpoint ==
    \A i \in 1..Len(connections_) :
        /\ validate_port_exists(connections_[i].from_node, connections_[i].from_port) = OK
        /\ validate_port_exists(connections_[i].to_node, connections_[i].to_port) = OK

----------------------------------------------------------------------------
(* SpecPortIds: nodes are made by NodeFactory::create and ports are added to *)
(* them through the Node::add_* calls, in one thread; call holds the nodes   *)
(* made, Port::next_id_ and NodeFactory's two counters.                      *)

MaxPortIdCalls == 4

PortIdTypes == {"Start", "PrintString", "IntLiteral"}

PortIdOps == {"create", "add_input_port", "add_output_port", "add_exec_input", "add_exec_output"}

\* the static counters as the process starts: Port::next_id_{1},
\* NodeFactory::next_node_id_{1}, NodeFactory::next_port_id_{1}
ProcessStarts ==
    /\ call = NoCall
    /\ call' = [op |-> "main", nodes |-> <<>>, calls |-> 0,
                next_id_ |-> 1, next_node_id_ |-> 1, next_port_id_ |-> 1]
    /\ UNCHANGED <<graph_vars, last, factory_vars>>

CanCallPortIds == call.op \in PortIdOps \cup {"main"} /\ call.calls < MaxPortIdCalls

\* NodeFactory::create: the node id and every port id of the template come from
\* the factory's counters
CreateNode ==
    /\ CanCallPortIds
    /\ \E type \in PortIdTypes :
           call' = [call EXCEPT
                        !.op = "create",
                        !.calls = @ + 1,
                        !.nodes = Append(@, create_with_id(call.next_node_id_, type, "node",
                                                           call.next_port_id_)),
                        !.next_node_id_ = @ + 1,
                        !.next_port_id_ = @ + Len(configure_ports(type, 1))]
    /\ UNCHANGED <<graph_vars, last, factory_vars>>

\* the ports of node i replaced by those of the node object a Node::add_* call left
with_ports(i, op, node) ==
    /\ call' = [call EXCEPT !.op = op,
                            !.calls = @ + 1,
                            !.nodes[i].ports = node.ports,
                            !.next_id_ = @ + 1]
    /\ UNCHANGED <<graph_vars, last, factory_vars>>

node_object(node) == [ports |-> node.ports, has_execution_flow_ |-> FALSE]

\* Node::add_input_port / add_output_port: generate_port_id() is Port::generate_unique_id()
AddDataPortById ==
    /\ CanCallPortIds
    /\ \E i \in 1..Len(call.nodes) :
           \/ with_ports(i, "add_input_port",
                         node_add_input_port(node_object(call.nodes[i]), call.next_id_,
                                             "Int32", "in"))
           \/ with_ports(i, "add_output_port",
                         node_add_output_port(node_object(call.nodes[i]), call.next_id_,
                                              "Int32", "out"))

\* Node::add_exec_input / add_exec_output
AddExecPortById ==
    /\ CanCallPortIds
    /\ \E i \in 1..Len(call.nodes) :
           \/ with_ports(i, "add_exec_input",
                         node_add_exec_input(node_object(call.nodes[i]), call.next_id_))
           \/ with_ports(i, "add_exec_output",
                         node_add_exec_output(node_object(call.nodes[i]), call.next_id_))

NextPortIds == ProcessStarts \/ CreateNode \/ AddDataPortById \/ AddExecPortById

SpecPortIds == Init /\ [][NextPortIds]_vars

----------------------------------------------------------------------------
(* Properties of port ids *)

\* every port made so far, as <<node position, port position>>
PortsMade == {<<i, k>> \in (1..MaxPortIdCalls) \X (1..(3 + MaxPortIdCalls)) :
                  i <= Len(call.nodes) /\ k <= Len(call.nodes[i].ports)}

\* C37: no two ports receive the same PortId, whether the factory's templates
\* or the Node::add_* calls made them.
PortIdsAreUnique ==
    call.op \in PortIdOps =>
        \A p, q \in PortsMade :
            p # q => call.nodes[p[1]].ports[p[2]].id # call.nodes[q[1]].ports[q[2]].id

----------------------------------------------------------------------------
(* SpecAccept: the program Start -> PrintString -> End and the data sources  *)
(* of test_cpp_code_generator.cpp are built from factory nodes, added in     *)
(* order with any left out and connected in any order; validate() is called. *)

MaxAcceptConns == 4

AcceptNodes ==
    <<create_with_id(1, "Start", "Start #1", 1),
      create_with_id(2, "PrintString", "PrintString #2", 2),
      create_with_id(3, "End", "End #3", 5),
      create_with_id(4, "StringLiteral", "StringLiteral #4", 6),
      create_with_id(5, "IntLiteral", "IntLiteral #5", 7),
      create_with_id(6, "GetVariable", "GetVariable #6", 8)>>

AcceptExecutionLinks == {<<1, 1, 2, 2>>, <<2, 3, 3, 5>>}

\* each data source into PrintString's value input
AcceptDataLinks == {<<4, 6, 2, 4>>, <<5, 7, 2, 4>>, <<6, 8, 2, 4>>}

AddAcceptNode ==
    /\ \E i \in 1..Len(AcceptNodes) :
           /\ \A j \in 1..Len(nodes_) : nodes_[j].id < AcceptNodes[i].id
           /\ add_node(AcceptNodes[i])
    /\ call' = NoCall
    /\ UNCHANGED factory_vars

ConnectAccept ==
    /\ Len(connections_) < MaxAcceptConns
    /\ \E link \in AcceptExecutionLinks \cup AcceptDataLinks :
           /\ \A i \in 1..Len(connections_) : LinkOfConnection(connections_[i]) # link
           /\ connect_code(link[1], link[2], link[3], link[4]) = OK
           /\ connect(link[1], link[2], link[3], link[4])
    /\ call' = NoCall
    /\ UNCHANGED factory_vars

ValidateAccept ==
    /\ call = NoCall
    /\ call' = [op |-> "validate", result |-> validate]
    /\ UNCHANGED <<graph_vars, last, factory_vars>>

NextAccept == AddAcceptNode \/ ConnectAccept \/ ValidateAccept

SpecAccept == Init /\ [][NextAccept]_vars

----------------------------------------------------------------------------
(* Properties of validate() on programs with data sources *)

\* Start -> PrintString -> End with every data source of the graph connected
\* into PrintString's value input, and at least one such source
PrintProgramWithSources ==
    /\ {1, 2, 3} \subseteq node_lookup_
    /\ node_lookup_ \ {1, 2, 3} # {}
    /\ {StoredLinks[i] : i \in 1..Len(StoredLinks)} = AcceptExecutionLinks
                         \cup {link \in AcceptDataLinks : link[1] \in node_lookup_}

\* C39: validate() accepts Start -> PrintString -> End whose data input is fed
\* by a pure data source (StringLiteral, IntLiteral, GetVariable) connected
\* only by Data connections.
ValidateAcceptsDataSources ==
    (call.op = "validate" /\ PrintProgramWithSources) => call.result.is_valid

\* what validate() does accept: the same program without data sources
ValidateAcceptsPlainProgram ==
    (call.op = "validate" /\ node_lookup_ = {1, 2, 3}
         /\ {StoredLinks[i] : i \in 1..Len(StoredLinks)} = AcceptExecutionLinks) => call.result.is_valid

----------------------------------------------------------------------------
(* SpecReorder: a Start node, two SetVariable nodes (x and y) and an         *)
(* IntLiteral are added to a graph, connections are made and removed in any  *)
(* order while the connection counter has not wrapped, and generate is       *)
(* called any number of times; call holds the text of the latest call, the   *)
(* nodes and the set of connection tuples it saw, and the same of the call   *)
(* before it.                                                                *)

ReorderNodes ==
    <<create_with_id(1, "Start", "Start #1", 1),
      set_property(create_with_id(2, "SetVariable", "SetVariable #2", 2),
                   "variable_name", "x"),
      set_property(create_with_id(3, "SetVariable", "SetVariable #3", 5),
                   "variable_name", "y"),
      create_with_id(4, "IntLiteral", "IntLiteral #4", 8)>>

\* Start -> x, Start -> y, x -> y, and the literal into either value input
ReorderLinks ==
    {<<1, 1, 2, 2>>, <<1, 1, 3, 5>>, <<2, 4, 3, 5>>, <<4, 8, 2, 3>>, <<4, 8, 3, 6>>}

AddReorderNode ==
    /\ call = NoCall
    /\ connections_ = <<>>
    /\ \E i \in 1..Len(ReorderNodes) :
           /\ \A j \in 1..Len(nodes_) : nodes_[j].id < ReorderNodes[i].id
           /\ add_node(ReorderNodes[i])
    /\ UNCHANGED <<call, factory_vars>>

ConnectReorder ==
    /\ next_connection_id_ \in 1..MaxId
    /\ \E link \in ReorderLinks :
           /\ \A i \in 1..Len(connections_) : LinkOfConnection(connections_[i]) # link
           /\ connect_code(link[1], link[2], link[3], link[4]) = OK
           /\ connect(link[1], link[2], link[3], link[4])
    /\ UNCHANGED <<call, factory_vars>>

DisconnectReorder ==
    /\ \E i \in 1..Len(connections_) : Disconnect(connections_[i].id)
    /\ UNCHANGED <<call, factory_vars>>

\* what one generate call is remembered by
Generated(result) ==
    [generated |-> TRUE,
     text |-> IF result.has_value THEN result.value ELSE result.error,
     nodes |-> node_lookup_,
     links |-> {LinkOfConnection(connections_[i]) : i \in 1..Len(connections_)}]

NotGenerated == [generated |-> FALSE]

GenerateReorder ==
    /\ call' = [op |-> "generate", latest |-> Generated(generate),
                previous |-> IF call = NoCall THEN NotGenerated ELSE call.latest]
    /\ UNCHANGED <<graph_vars, last, factory_vars>>

NextReorder == AddReorderNode \/ ConnectReorder \/ DisconnectReorder \/ GenerateReorder

SpecReorder == Init /\ [][NextReorder]_vars

----------------------------------------------------------------------------
(* Properties of generate under reordered connection storage *)

\* C38: the generated text depends only on the nodes, their properties and
\* the set of connections, not on the order the connections are stored in:
\* two generate calls that see the same nodes and the same set of connection
\* tuples return the same text, also when a port has several connections.
SameConnectionsSameCode ==
    (/\ call.op = "generate"
     /\ call.previous.generated
     /\ call.previous.nodes = call.latest.nodes
     /\ call.previous.links = call.latest.links)
        => call.previous.text = call.latest.text

\* the ports that more than one of the given links is attached to
SharedPorts(links) ==
    {p \in {<<link[1], link[2]>> : link \in links} \cup {<<link[3], link[4]>> : link \in links} :
         Cardinality({link \in links : <<link[1], link[2]>> = p \/ <<link[3], link[4]>> = p}) > 1}

\* the part of C38 that holds: with at most one connection on every port
SameConnectionsSameCodeOnePerPort ==
    (/\ call.op = "generate"
     /\ call.previous.generated
     /\ call.previous.nodes = call.latest.nodes
     /\ call.previous.links = call.latest.links
     /\ SharedPorts(call.latest.links) = {})
        => call.previous.text = call.latest.text

----------------------------------------------------------------------------
(* SpecReturn: a Start node, a Sequence, an End, a SetVariable (x) and a     *)
(* ForLoop made by the factory are added to a graph in order, any left out,  *)
(* and connected in any order; validate() and generate are then called.      *)

MaxReturnConns == 4

ReturnNodes ==
    <<create_with_id(1, "Start", "Start #1", 1),
      create_with_id(2, "Sequence", "Sequence #2", 2),
      create_with_id(3, "End", "End #3", 5),
      set_property(create_with_id(4, "SetVariable", "SetVariable #4", 6),
                   "variable_name", "x"),
      create_with_id(5, "ForLoop", "ForLoop #5", 9)>>

\* Start -> Sequence, Start -> ForLoop, Start -> SetVariable; Then 0 -> End,
\* Then 0 -> SetVariable, Then 1 -> SetVariable, Then 1 -> ForLoop;
\* SetVariable -> End; loop_body -> End, loop_body -> SetVariable,
\* completed -> End, completed -> SetVariable
ReturnLinks ==
    {<<1, 1, 2, 2>>, <<1, 1, 5, 9>>, <<1, 1, 4, 6>>,
     <<2, 3, 3, 5>>, <<2, 3, 4, 6>>, <<2, 4, 4, 6>>, <<2, 4, 5, 9>>,
     <<4, 8, 3, 5>>,
     <<5, 12, 3, 5>>, <<5, 12, 4, 6>>, <<5, 14, 3, 5>>, <<5, 14, 4, 6>>}

AddReturnNode ==
    /\ call = NoCall
    /\ \E i \in 1..Len(ReturnNodes) :
           /\ \A j \in 1..Len(nodes_) : nodes_[j].id < ReturnNodes[i].id
           /\ add_node(ReturnNodes[i])
    /\ UNCHANGED <<call, factory_vars>>

\* one connection per port at most
ConnectReturn ==
    /\ call = NoCall
    /\ Len(connections_) < MaxReturnConns
    /\ \E link \in ReturnLinks :
           /\ \A i \in 1..Len(connections_) :
                  /\ connections_[i].from_port # link[2]
                  /\ connections_[i].to_port # link[4]
           /\ connect_code(link[1], link[2], link[3], link[4]) = OK
           /\ connect(link[1], link[2], link[3], link[4])
    /\ UNCHANGED <<call, factory_vars>>

\* validate() first, as the generator asks, then generate
ValidateAndGenerate ==
    /\ call = NoCall
    /\ call' = [op |-> "generate", validated |-> validate.is_valid, result |-> generate]
    /\ UNCHANGED <<graph_vars, last, factory_vars>>

NextReturn == AddReturnNode \/ ConnectReturn \/ ValidateAndGenerate

SpecReturn == Init /\ [][NextReturn]_vars

----------------------------------------------------------------------------
(* Properties of the return statements of the generated code *)

\* the lines of main's body as assemble_final_code puts them out
BodyLines(builder) ==
    builder.preamble \o builder.main_body
        \o (IF contains_text(str(builder.main_body), "return 0;") THEN <<>>
            ELSE <<"    return 0;\n">>)

ReturnLine(indent) == spaces(4 * indent) \o "return 0;\n"

\* a line that ends the block whose statements are indented by indent
ClosesBlock(line, indent) ==
    line \in {spaces(4 * (indent - 1)) \o "}\n", spaces(4 * (indent - 1)) \o "} else {\n"}

\* every return 0; is followed by the end of its block
ReturnsEndTheirBlocks(lines) ==
    \A i \in 1..Len(lines) : \A indent \in 1..Len(lines) :
        lines[i] = ReturnLine(indent) =>
            IF i = Len(lines) THEN indent = 1 ELSE ClosesBlock(lines[i + 1], indent)

\* main ends in a return, or in an if/else whose two branches end in one
MainEndsInReturn(lines) ==
    /\ lines # <<>>
    /\ \/ lines[Len(lines)] = ReturnLine(1)
       \/ /\ lines[Len(lines)] = spaces(4) \o "}\n"
          /\ lines[Len(lines) - 1] = ReturnLine(2)
          /\ \E j \in 2..(Len(lines) - 2) :
                 /\ lines[j] = spaces(4) \o "} else {\n"
                 /\ lines[j - 1] = ReturnLine(2)
                 /\ \A k \in (j + 1)..(Len(lines) - 1) :
                        SubSeq(lines[k], 1, 8) = spaces(8)

\* C40: in the code generated for a graph that validate() accepts, a return 0;
\* is the last statement of the block it is emitted in, and the path that
\* reaches the end of main ends in a return.
ReturnIsLastStatementOfItsBlock ==
    (call.op = "generate" /\ call.validated /\ call.result.has_value) =>
        /\ ReturnsEndTheirBlocks(BodyLines(call.result.builder))
        /\ MainEndsInReturn(BodyLines(call.result.builder))

\* the first half alone
ReturnsEndTheirBlocksWhenValidated ==
    (call.op = "generate" /\ call.validated /\ call.result.has_value) =>
        ReturnsEndTheirBlocks(BodyLines(call.result.builder))

\* the second half alone
MainEndsInReturnWhenValidated ==
    (call.op = "generate" /\ call.validated /\ call.result.has_value) =>
        MainEndsInReturn(BodyLines(call.result.builder))

\* graphs whose Sequence and ForLoop nodes are absent: straight-line programs
ReturnIsLastInStraightLinePrograms ==
    (call.op = "generate" /\ call.validated /\ call.result.has_value
         /\ node_lookup_ \cap {2, 5} = {}) =>
        /\ ReturnsEndTheirBlocks(BodyLines(call.result.builder))
        /\ MainEndsInReturn(BodyLines(call.result.builder))

====
